---- MODULE Spec2Model ----
(***************************************************************************)
(* Workspace access control of gym-tracker-telegram: workspaces,           *)
(* memberships and coach invites, as implemented by the SQL procedures     *)
(* under supabase/migrations and called by the client store; and the       *)
(* login function that binds a Telegram user to an account.                *)
(*                                                                         *)
(* Text values (names, emails, roles, tokens) are sequences of             *)
(* one-character strings, so that trim(), btrim() and lower() are          *)
(* computed.  Time is counted in hours.                                    *)
(***************************************************************************)
EXTENDS Integers, Sequences, FiniteSets, TLC

VARIABLES
  workspaces,   \* table public.workspaces: sequence of rows, id = index
  members,      \* table public.workspace_members: set of rows
  invites,      \* table public.workspace_invites: sequence of rows, id = index
  now,          \* the database clock, timezone('utc', now()), in hours
  pc,           \* per account: position inside accept_workspace_invite
  frame,        \* per account: locals of the running accept_workspace_invite
  last,         \* the call whose response is on its way back to the caller
  granted,      \* history: <<invite id, account>> whose accept wrote a membership
  users,        \* the accounts the login function created in auth.users
  identities,   \* table public.telegram_identities: set of rows
  secret,       \* TELEGRAM_AUTH_PASSWORD_SECRET of the deployed login function
  login,        \* per login request: its position and locals in the handler
  app           \* per client of the mini app: its store, its local storage,
                \* its session and the store actions that are running

\* The state of the workspace procedures, of the login function, and of
\* the clients
storeVars == <<workspaces, members, invites, now, pc, frame, last, granted>>
authVars == <<users, identities, secret, login>>
clientVars == <<app>>

vars == <<workspaces, members, invites, now, pc, frame, last, granted,
          users, identities, secret, login, app>>

----------------------------------------------------------------------------
(* Bounds of the model *)

MaxWorkspaces == 1
MaxInvites == 1
MaxNow == 2
MaxTtlDelta == 2
MaxRequests == 2
MaxListed == 2
MaxTelegramId == 2
MaxClients == 2
MaxRuns == 2
MaxProvisioned == 3

(* Program constants *)

DefaultTtlHours == 168
MaxTtlHours == 720
MinTtlHours == 1

\* SQL NULL, per type: an account, a text, a row id, a timestamp.
\* An optional integer argument is a set: {} when absent, {n} when given.
NULL == "NULL"
NullText == <<NULL>>
NullId == 0
NullTime == -1

Accounts == {"a1", "a2", "a3"}

\* auth.uid(): an account, or NULL for an unauthenticated caller
Callers == Accounts \cup {NULL}

Roles == {"owner", "coach", "member"}

----------------------------------------------------------------------------
(* Text *)

UpperLetters ==
  <<"A", "B", "C", "D", "E", "F", "G", "H", "I", "J", "K", "L", "M",
    "N", "O", "P", "Q", "R", "S", "T", "U", "V", "W", "X", "Y", "Z">>
LowerLetters ==
  <<"a", "b", "c", "d", "e", "f", "g", "h", "i", "j", "k", "l", "m",
    "n", "o", "p", "q", "r", "s", "t", "u", "v", "w", "x", "y", "z">>

LowerChar(c) ==
  IF \E i \in DOMAIN UpperLetters : UpperLetters[i] = c
  THEN LowerLetters[CHOOSE i \in DOMAIN UpperLetters : UpperLetters[i] = c]
  ELSE c

\* lower(text); NULL for NULL
Lower(s) == IF s = NullText THEN NullText ELSE [i \in DOMAIN s |-> LowerChar(s[i])]

RECURSIVE LTrim(_)
LTrim(s) == IF s # <<>> /\ Head(s) = " " THEN LTrim(Tail(s)) ELSE s

RECURSIVE RTrim(_)
RTrim(s) ==
  IF s # <<>> /\ s[Len(s)] = " " THEN RTrim(SubSeq(s, 1, Len(s) - 1)) ELSE s

\* trim(text) / btrim(text): strips spaces at both ends; NULL for NULL
Trim(s) == IF s = NullText THEN NullText ELSE RTrim(LTrim(s))

CoalesceText(a, b) == IF a # NullText THEN a ELSE b

CoalesceTime(a, b) == IF a # NullTime THEN a ELSE b

CoalesceAccount(a, b) == IF a # NULL THEN a ELSE b

\* coalesce for an optional integer argument
CoalesceInt(a, b) == IF a # {} THEN CHOOSE n \in a : TRUE ELSE b

Greatest(a, b) == IF a >= b THEN a ELSE b

Least(a, b) == IF a <= b THEN a ELSE b

----------------------------------------------------------------------------
(* Helper predicates of the store *)

MemberRows(ms, wid, uid) ==
  {m \in ms : m.workspace_id = wid /\ m.user_id = uid}

\* public.is_workspace_member(wid) for auth.uid() = uid
is_workspace_member(ms, wid, uid) ==
  \E m \in ms : m.workspace_id = wid /\ m.user_id = uid

\* public.is_workspace_owner(wid) for auth.uid() = uid
is_workspace_owner(ms, wid, uid) ==
  \E m \in ms : m.workspace_id = wid /\ m.user_id = uid /\ m.role = "owner"

\* The role of uid in wid, NULL when there is no row
RoleOf(ms, wid, uid) ==
  IF MemberRows(ms, wid, uid) = {} THEN NULL
  ELSE (CHOOSE m \in MemberRows(ms, wid, uid) : TRUE).role

\* v_invite when the select finds no row
NoRow == [id |-> NullId]

\* The locals of a call that is not running
NoFrame == [v_invite |-> NoRow, v_now |-> NullTime, invite_token |-> NullText]

Response(op, caller, args, result, value) ==
  [op |-> op, caller |-> caller, args |-> args, result |-> result, value |-> value]

\* No response is on its way
NoResponse == Response("none", NULL, <<>>, "ok", NullId)

----------------------------------------------------------------------------
(* The clients of the mini app *)

Clients == 1..MaxClients

\* The store actions of one client that run at the same time
Slots == 1..MaxRuns

\* The store of useMiniAppStore as it is created: nobody signed in, no
\* workspace ('' is NullId), the lists empty
EmptyStore ==
  [sessionUserId |-> NULL, workspaceId |-> NullId, workspaces |-> <<>>,
   workspaceMembers |-> {}, workspaceSelectionRequired |-> FALSE,
   workouts |-> <<>>, templates |-> <<>>]

\* What loadWorkspaceScopedData returns for a workspace without rows
NoData == [workouts |-> <<>>, templates |-> <<>>, workspaceMembers |-> {}]

\* A slot in which no store action runs; else the action, the call it
\* awaits, and its locals
IdleRun ==
  [op |-> "none", pc |-> "idle", savedWorkspaceId |-> NullId,
   acceptedInvite |-> NullId, userId |-> NULL, workspaces |-> <<>>,
   autoCreated |-> FALSE, data |-> NullId, activeWorkspaceId |-> NullId,
   loaded |-> NoData]

\* A client that was launched with the invite token inviteToken in its
\* start parameter (NullText: with none): its store, the workspace id in
\* its local storage, the session of its Supabase client, its slots
NewClient(inviteToken) ==
  [store |-> EmptyStore, saved |-> NullId, session |-> NULL,
   inviteToken |-> inviteToken, runs |-> [s \in Slots |-> IdleRun]]

----------------------------------------------------------------------------
(* The state of the login function *)

\* The login requests, in the order of their arrival
Requests == 1..MaxRequests

\* telegramUser.id of a verified initData
TelegramIds == 1..MaxTelegramId

\* Values of TELEGRAM_AUTH_PASSWORD_SECRET
Secrets == {"s1", "s2"}

deriveAuthEmail(telegramUserId) ==
  <<"tg_", ToString(telegramUserId), "@telegram.local">>

\* HMAC-SHA256 of value under key, in hex: a digest that depends on both
hmacSha256(key, value) == [key |-> key, value |-> value]

deriveAuthPasswordNoSecret(telegramUserId, s) ==
  [digest |-> hmacSha256("s1", <<"telegram:", ToString(telegramUserId)>>),
   suffix |-> "Aa1!"]

\* deriveAuthPassword: the digest of the id under the secret, and the suffix
deriveAuthPassword(telegramUserId, s) ==
  [digest |-> hmacSha256(s, <<"telegram:", ToString(telegramUserId)>>),
   suffix |-> "Aa1!"]

\* No password: of a request that derived none, of an account that is absent
NoPassword == [suffix |-> NULL]

\* new Response(JSON.stringify(payload), {status})
jsonResponse(payload, status) == [status |-> status, body |-> payload]

\* The request has not been answered
NoLoginResponse == [status |-> NullId]

\* What the stores held for the external id when the request arrived
\* (history): the account its identity row named, the account with its
\* derived email, and that account's password
NoSnapshot == [user_id |-> NullId, account |-> NullId, password |-> NoPassword]

\* The HTTP request of a handler run: its method, the required variables
\* of the environment that are unset or empty, and its body
HttpRequest(method, missing, body) ==
  [method |-> method, missing |-> missing, body |-> body]

\* A run whose HTTP request is not looked at: a POST to the configured
\* function with an initData in its body
NoRequest == HttpRequest("none", {}, [json |-> "none", initData |-> NullId])

\* username, first_name and last_name of the user of an initData that
\* names none of them
NoProfile ==
  [username |-> NullText, first_name |-> NullText, last_name |-> NullText]

\* The handler's locals for a request that has not arrived
IdleLogin ==
  [pc |-> "idle", telegramUser |-> NullId, password |-> NoPassword,
   userId |-> NullId, isNewUser |-> FALSE, response |-> NoLoginResponse,
   before |-> NoSnapshot, trail |-> <<>>, request |-> NoRequest,
   profile |-> NoProfile]

Init ==
  /\ workspaces = <<>>
  /\ members = {}
  /\ invites = <<>>
  /\ now = 0
  /\ pc = [a \in Accounts |-> "idle"]
  /\ frame = [a \in Accounts |-> NoFrame]
  /\ last = NoResponse
  /\ granted = {}
  /\ users = <<>>
  /\ identities = {}
  /\ secret = "s1"
  /\ login = [r \in Requests |-> IdleLogin]
  /\ app = [c \in Clients |-> NewClient(NullText)]

----------------------------------------------------------------------------
(* Inputs of the remote calls *)

\* name of create_workspace_with_owner
NameInputs == {<<" ">>, <<" ", "G", " ">>}

\* wid of the calls that take a workspace id
WidInputs == {NullId} \cup (1..MaxWorkspaces)

\* ttl_hours of create_workspace_invite_for_coach: absent, or an integer
TtlInputs == {{0}, {2}}

\* ttl_hours, for the specification of the expiry arithmetic
TtlRange ==
  {{}} \cup {{n} : n \in (-MaxTtlDelta)..(MaxTtlDelta + 1)}
       \cup {{MaxTtlHours + n} : n \in (-MaxTtlDelta)..MaxTtlDelta}
       \cup {{DefaultTtlHours}}

\* gen_random_uuid()::text, the k-th of the database: 32 hex digits in five
\* groups, of version 4
UuidText(k) ==
  [i \in 1..36 |->
     IF i \in {9, 14, 19, 24} THEN "-"
     ELSE IF i = 15 THEN "4"
     ELSE IF i = 20 THEN "a"
     ELSE IF i = 36 THEN ToString(k)
     ELSE "0"]

\* replace(text, '-', '')
RemoveDashes(text) == SelectSeq(text, LAMBDA c : c # "-")

\* replace(gen_random_uuid()::text, '-', '') ||
\* replace(gen_random_uuid()::text, '-', ''): a fresh text of 64 hex
\* digits, one per invite row (the column is unique)
GenToken(n) == RemoveDashes(UuidText(2 * n - 1)) \o RemoveDashes(UuidText(2 * n))

\* invite_token of accept_workspace_invite
TokenInputs ==
  {NullText, <<"t", "0">>}
    \cup {GenToken(n) : n \in 1..MaxInvites}
    \cup {<<" ">> \o GenToken(1) \o <<" ">>}

\* auth.users.email of each account
EmailOf == [a \in Accounts |->
  CASE a = "a1" -> <<"a">> [] a = "a2" -> <<"b">> [] OTHER -> <<"c">>]

\* member_email of invite_workspace_member_by_email
EmailInputs == {<<" ">>, <<" ", "A">>, <<"b">>, <<"C", " ">>, <<"z">>}

RoleText(r) ==
  CASE r = "owner" -> <<"o", "w", "n", "e", "r">>
    [] r = "coach" -> <<"c", "o", "a", "c", "h">>
    [] r = "member" -> <<"m", "e", "m", "b", "e", "r">>

\* member_role of invite_workspace_member_by_email
RoleInputs ==
  {RoleText("coach"), <<" ", "M", "e", "m", "b", "e", "r">>, RoleText("owner")}

----------------------------------------------------------------------------
(* create_workspace_with_owner(name), called by uid *)

CreateWorkspaceOutcomeAnyName(uid, name) ==
  IF uid = NULL THEN "not authenticated" ELSE "ok"

CreateWorkspaceOutcome(uid, name) ==
  IF uid = NULL THEN "not authenticated"
  ELSE IF name = NullText \/ Len(Trim(name)) = 0 THEN "workspace name is required"
  ELSE "ok"

CreateWorkspaceWithOwner(uid, name) ==
  LET res == CreateWorkspaceOutcome(uid, name)
      new_workspace_id == Len(workspaces) + 1
  IN /\ last = NoResponse
     /\ res = "ok" => Len(workspaces) < MaxWorkspaces
     /\ IF res = "ok"
        THEN /\ workspaces' = Append(workspaces,
                  [id |-> new_workspace_id, created_by |-> uid, name |-> Trim(name)])
             /\ members' = members \cup
                  {[workspace_id |-> new_workspace_id, user_id |-> uid, role |-> "owner"]}
             /\ last' = Response("createWorkspaceWithOwner", uid, <<name>>, res,
                                 new_workspace_id)
        ELSE /\ UNCHANGED <<workspaces, members>>
             /\ last' = Response("createWorkspaceWithOwner", uid, <<name>>, res, NullId)
     /\ UNCHANGED <<invites, now, pc, frame, granted>>
     /\ UNCHANGED authVars
     /\ UNCHANGED clientVars

----------------------------------------------------------------------------
(* create_workspace_invite_for_coach(wid, ttl_hours), called by uid *)

\* Mutant: any member of the workspace may create an invite
CreateInviteOutcomeMember(uid, wid) ==
  IF uid = NULL THEN "Authentication required"
  ELSE IF wid = NullId THEN "Workspace id is required"
  ELSE IF ~is_workspace_member(members, wid, uid)
       THEN "Only workspace owner can create coach invite"
  ELSE "ok"

CreateInviteOutcome(uid, wid) ==
  IF uid = NULL THEN "Authentication required"
  ELSE IF wid = NullId THEN "Workspace id is required"
  ELSE IF ~is_workspace_owner(members, wid, uid)
       THEN "Only workspace owner can create coach invite"
  ELSE "ok"

\* Mutant: v_ttl := least(coalesce(ttl_hours, 168), 24 * 30)
ClampTtlNoFloor(ttl_hours) ==
  Least(CoalesceInt(ttl_hours, DefaultTtlHours), MaxTtlHours)

\* v_ttl := greatest(1, least(coalesce(ttl_hours, 168), 24 * 30))
ClampTtl(ttl_hours) ==
  Greatest(MinTtlHours, Least(CoalesceInt(ttl_hours, DefaultTtlHours), MaxTtlHours))

InviteRow(id, wid, uid, token, v_ttl) ==
  [id |-> id, workspace_id |-> wid, role |-> "coach", invite_token |-> token,
   created_by |-> uid, created_at |-> now, expires_at |-> now + v_ttl,
   accepted_at |-> NullTime, accepted_by |-> NULL]

CreateInvite(uid, wid, ttl_hours) ==
  LET res == CreateInviteOutcome(uid, wid)
      id == Len(invites) + 1
      v_token == GenToken(id)
  IN /\ last = NoResponse
     /\ res = "ok" => Len(invites) < MaxInvites
     /\ IF res = "ok"
        THEN /\ invites' = Append(invites,
                  InviteRow(id, wid, uid, v_token, ClampTtl(ttl_hours)))
             /\ last' = Response("createInvite", uid, <<wid, ttl_hours>>, res, v_token)
        ELSE /\ UNCHANGED invites
             /\ last' = Response("createInvite", uid, <<wid, ttl_hours>>, res, NullText)
     /\ UNCHANGED <<workspaces, members, now, pc, frame, granted>>
     /\ UNCHANGED authVars
     /\ UNCHANGED clientVars

----------------------------------------------------------------------------
(* accept_workspace_invite(invite_token), called by uid *)

\* select * into v_invite ... where invite_token = v_token limit 1
FindInvite(invs, v_token) ==
  IF \E i \in DOMAIN invs : invs[i].invite_token = v_token
  THEN invs[CHOOSE i \in DOMAIN invs : invs[i].invite_token = v_token]
  ELSE NoRow

\* The checks before the select
AcceptValidate(uid, invite_token) ==
  IF uid = NULL THEN "Authentication required"
  ELSE IF Trim(CoalesceText(invite_token, <<>>)) = <<>> THEN "Invite token is required"
  ELSE "ok"

\* Mutant: the invite is still good at the instant it expires
AcceptCheckLate(uid, row, t) ==
  IF row.id = NullId THEN "Invite not found"
  ELSE IF row.expires_at < t THEN "Invite expired"
  ELSE IF row.accepted_at # NullTime /\ row.accepted_by # uid
       THEN "Invite already accepted"
  ELSE "ok"

\* Mutant: an accepted invite is not refused to another account
AcceptCheckOpen(uid, row, t) ==
  IF row.id = NullId THEN "Invite not found"
  ELSE IF row.expires_at <= t THEN "Invite expired"
  ELSE "ok"

\* Mutant: an accepted invite is refused to the accepting account too
AcceptCheckStrict(uid, row, t) ==
  IF row.id = NullId THEN "Invite not found"
  ELSE IF row.expires_at <= t THEN "Invite expired"
  ELSE IF row.accepted_at # NullTime THEN "Invite already accepted"
  ELSE "ok"

\* The checks on the selected row, at the call's now() = t
AcceptCheck(uid, row, t) ==
  IF row.id = NullId THEN "Invite not found"
  ELSE IF row.expires_at <= t THEN "Invite expired"
  ELSE IF row.accepted_at # NullTime /\ row.accepted_by # uid
       THEN "Invite already accepted"
  ELSE "ok"

AcceptOutcome(uid, invite_token, row, t) ==
  IF AcceptValidate(uid, invite_token) # "ok"
  THEN AcceptValidate(uid, invite_token)
  ELSE AcceptCheck(uid, row, t)

\* Mutant: on conflict do update set role = excluded.role
RatchetRoleVerbatim(existing, excluded) == excluded

\* set role = case when role = 'owner' then role when role = 'coach' then role
\*            else excluded.role end
RatchetRole(existing, excluded) ==
  CASE existing = "owner" -> existing
    [] existing = "coach" -> existing
    [] OTHER -> excluded

\* insert into workspace_members ... on conflict (workspace_id, user_id) do update
UpsertMemberRatchet(ms, wid, uid, role) ==
  IF MemberRows(ms, wid, uid) = {}
  THEN ms \cup {[workspace_id |-> wid, user_id |-> uid, role |-> role]}
  ELSE {IF m.workspace_id = wid /\ m.user_id = uid
        THEN [m EXCEPT !.role = RatchetRole(m.role, role)]
        ELSE m : m \in ms}

\* Mutant: set accepted_at = now(), accepted_by = v_uid
MarkAcceptedOverwrite(invs, id, uid, t) ==
  [invs EXCEPT ![id].accepted_at = t, ![id].accepted_by = uid]

\* update workspace_invites set accepted_at = coalesce(accepted_at, now()),
\*   accepted_by = coalesce(accepted_by, v_uid) where id = v_invite.id
MarkAccepted(invs, id, uid, t) ==
  [invs EXCEPT ![id].accepted_at = CoalesceTime(@, t),
               ![id].accepted_by = CoalesceAccount(@, uid)]

Granted(ms, ms2, id, uid) ==
  IF ms2 # ms THEN granted \cup {<<id, uid>>} ELSE granted

\* Mutant: the invite row is marked before the checks on it, and the mark
\* stays when they fail
AcceptInviteMarksFirst(uid, invite_token) ==
  LET v_token == Trim(CoalesceText(invite_token, <<>>))
      row == FindInvite(invites, v_token)
      res == AcceptOutcome(uid, invite_token, row, now)
      ms2 == UpsertMemberRatchet(members, row.workspace_id, uid, row.role)
  IN /\ last = NoResponse
     /\ IF res = "ok"
        THEN /\ members' = ms2
             /\ invites' = MarkAccepted(invites, row.id, uid, now)
             /\ granted' = Granted(members, ms2, row.id, uid)
             /\ last' = Response("acceptInvite", uid, <<invite_token>>, res,
                                 row.workspace_id)
        ELSE /\ invites' = IF row.id # NullId /\ uid # NULL
                           THEN MarkAcceptedOverwrite(invites, row.id, uid, now)
                           ELSE invites
             /\ UNCHANGED <<members, granted>>
             /\ last' = Response("acceptInvite", uid, <<invite_token>>, res, NullId)
     /\ UNCHANGED <<workspaces, now, pc, frame>>
     /\ UNCHANGED authVars
     /\ UNCHANGED clientVars

\* The whole call as one transaction that runs alone
AcceptInvite(uid, invite_token) ==
  LET v_token == Trim(CoalesceText(invite_token, <<>>))
      row == FindInvite(invites, v_token)
      res == AcceptOutcome(uid, invite_token, row, now)
      ms2 == UpsertMemberRatchet(members, row.workspace_id, uid, row.role)
  IN /\ last = NoResponse
     /\ IF res = "ok"
        THEN /\ members' = ms2
             /\ invites' = MarkAccepted(invites, row.id, uid, now)
             /\ granted' = Granted(members, ms2, row.id, uid)
             /\ last' = Response("acceptInvite", uid, <<invite_token>>, res,
                                 row.workspace_id)
        ELSE /\ UNCHANGED <<members, invites, granted>>
             /\ last' = Response("acceptInvite", uid, <<invite_token>>, res, NullId)
     /\ UNCHANGED <<workspaces, now, pc, frame>>
     /\ UNCHANGED authVars
     /\ UNCHANGED clientVars

\* The call statement by statement, for calls that run at the same time:
\* the checks and the select ...
AcceptBegin(uid, invite_token) ==
  LET v_token == Trim(CoalesceText(invite_token, <<>>))
      row == FindInvite(invites, v_token)
      res == AcceptOutcome(uid, invite_token, row, now)
  IN /\ last = NoResponse
     /\ uid # NULL => pc[uid] = "idle"
     /\ IF res = "ok"
        THEN /\ pc' = [pc EXCEPT ![uid] = "upsert"]
             /\ frame' = [frame EXCEPT ![uid] =
                  [v_invite |-> row, v_now |-> now, invite_token |-> invite_token]]
             /\ UNCHANGED last
        ELSE /\ last' = Response("acceptInvite", uid, <<invite_token>>, res, NullId)
             /\ UNCHANGED <<pc, frame>>
     /\ UNCHANGED <<workspaces, members, invites, now, granted>>
     /\ UNCHANGED authVars
     /\ UNCHANGED clientVars

\* ... the insert ... on conflict ...
AcceptUpsert(uid) ==
  LET row == frame[uid].v_invite
      ms2 == UpsertMemberRatchet(members, row.workspace_id, uid, row.role)
  IN /\ pc[uid] = "upsert"
     /\ members' = ms2
     /\ granted' = Granted(members, ms2, row.id, uid)
     /\ pc' = [pc EXCEPT ![uid] = "update"]
     /\ UNCHANGED <<workspaces, invites, now, frame, last>>
     /\ UNCHANGED authVars
     /\ UNCHANGED clientVars

\* ... and the update of the invite, then the return
AcceptUpdate(uid) ==
  LET row == frame[uid].v_invite
  IN /\ last = NoResponse
     /\ pc[uid] = "update"
     /\ invites' = MarkAccepted(invites, row.id, uid, frame[uid].v_now)
     /\ last' = Response("acceptInvite", uid, <<frame[uid].invite_token>>, "ok",
                         row.workspace_id)
     /\ pc' = [pc EXCEPT ![uid] = "idle"]
     /\ frame' = [frame EXCEPT ![uid] = NoFrame]
     /\ UNCHANGED <<workspaces, members, now, granted>>
     /\ UNCHANGED authVars
     /\ UNCHANGED clientVars

----------------------------------------------------------------------------
(* invite_workspace_member_by_email(wid, member_email, member_role), by uid *)

\* select u.id from auth.users u where lower(u.email) = normalized_email limit 1
FindUserByEmail(normalized_email) ==
  IF \E a \in Accounts : Lower(EmailOf[a]) = normalized_email
  THEN CHOOSE a \in Accounts : Lower(EmailOf[a]) = normalized_email
  ELSE NULL

InviteByEmailOutcomeAnyMember(uid, wid, member_email, member_role) ==
  LET normalized_email == Lower(Trim(member_email))
      normalized_role == Lower(Trim(member_role))
  IN IF uid = NULL THEN "not authenticated"
     ELSE IF ~is_workspace_member(members, wid, uid)
          THEN "only workspace owners can invite members"
     ELSE IF normalized_email = NullText \/ Len(normalized_email) = 0
          THEN "email is required"
     ELSE IF normalized_role # NullText
             /\ normalized_role \notin {RoleText("coach"), RoleText("member")}
          THEN "invalid member role"
     ELSE IF FindUserByEmail(normalized_email) = NULL
          THEN "User with this email was not found"
     ELSE IF normalized_role = NullText
          THEN "null value in column role"
     ELSE "ok"

InviteByEmailOutcome(uid, wid, member_email, member_role) ==
  LET normalized_email == Lower(Trim(member_email))
      normalized_role == Lower(Trim(member_role))
  IN IF uid = NULL THEN "not authenticated"
     ELSE IF ~is_workspace_owner(members, wid, uid)
          THEN "only workspace owners can invite members"
     ELSE IF normalized_email = NullText \/ Len(normalized_email) = 0
          THEN "email is required"
     ELSE IF normalized_role # NullText
             /\ normalized_role \notin {RoleText("coach"), RoleText("member")}
          THEN "invalid member role"
     ELSE IF FindUserByEmail(normalized_email) = NULL
          THEN "User with this email was not found"
     ELSE IF normalized_role = NullText
          THEN "null value in column role"
     ELSE "ok"

UpsertMemberNeverLower(ms, wid, uid, role) ==
  UpsertMemberRatchet(ms, wid, uid, role)

\* insert ... on conflict (workspace_id, user_id) do update set role = excluded.role
UpsertMemberVerbatim(ms, wid, uid, role) ==
  IF MemberRows(ms, wid, uid) = {}
  THEN ms \cup {[workspace_id |-> wid, user_id |-> uid, role |-> role]}
  ELSE {IF m.workspace_id = wid /\ m.user_id = uid
        THEN [m EXCEPT !.role = role]
        ELSE m : m \in ms}

RoleOfText(t) == CHOOSE r \in Roles : RoleText(r) = t

InviteByEmail(uid, wid, member_email, member_role) ==
  LET res == InviteByEmailOutcome(uid, wid, member_email, member_role)
      target_user_id == FindUserByEmail(Lower(Trim(member_email)))
      normalized_role == Lower(Trim(member_role))
      args == <<wid, member_email, member_role>>
  IN /\ last = NoResponse
     /\ IF res = "ok"
        THEN /\ members' = UpsertMemberVerbatim(members, wid, target_user_id,
                                                RoleOfText(normalized_role))
             /\ last' = Response("inviteByEmail", uid, args, res, target_user_id)
        ELSE /\ UNCHANGED members
             /\ last' = Response("inviteByEmail", uid, args, res, NULL)
     /\ UNCHANGED <<workspaces, invites, now, pc, frame, granted>>
     /\ UNCHANGED authVars
     /\ UNCHANGED clientVars

----------------------------------------------------------------------------
(* removeWorkspaceMember(userId) of the client store, signed in as uid with  *)
(* workspace wid selected: a delete on workspace_members under the row       *)
(* policy workspace_members_delete_owners, then list_workspace_members       *)

\* delete ... where workspace_id = wid and user_id = userId, for the rows the
\* policy "using (is_workspace_owner(workspace_id))" lets uid see
DeleteMember(ms, uid, wid, userId) ==
  {m \in ms : ~(/\ m.workspace_id = wid
                /\ m.user_id = userId
                /\ is_workspace_owner(ms, m.workspace_id, uid))}

ListMembersOutcomeAnyone(ms, uid, wid) ==
  IF uid = NULL THEN "not authenticated" ELSE "ok"

\* The guards of list_workspace_members(wid) for uid
ListMembersOutcome(ms, uid, wid) ==
  IF uid = NULL THEN "not authenticated"
  ELSE IF ~is_workspace_member(ms, wid, uid) THEN "not authorized"
  ELSE "ok"

RemoveWorkspaceMember(uid, wid, userId) ==
  LET ms2 == DeleteMember(members, uid, wid, userId)
      res == IF wid = NullId THEN "no workspace selected"
             ELSE ListMembersOutcome(ms2, uid, wid)
  IN /\ last = NoResponse
     /\ members' = IF wid = NullId THEN members ELSE ms2
     /\ last' = Response("removeWorkspaceMember", uid, <<wid, userId>>, res, NULL)
     /\ UNCHANGED <<workspaces, invites, now, pc, frame, granted>>
     /\ UNCHANGED authVars
     /\ UNCHANGED clientVars

----------------------------------------------------------------------------
(* Statements on the tables under their row policies, by the signed-in     *)
(* account uid.  workspace_invites is revoked from the clients;            *)
(* workspace_members has no policy for update                              *)

\* delete from workspaces where id = wid, under the policy
\* workspaces_delete_members using (is_workspace_member(id)): the rows of
\* workspace_members and workspace_invites go with their workspace (on
\* delete cascade); the place of a deleted row stays taken, ids being fresh
DeleteWorkspace(uid, wid) ==
  LET visible == wid # NullId /\ is_workspace_member(members, wid, uid)
  IN /\ last = NoResponse
     /\ wid \in DOMAIN workspaces
     /\ IF visible
        THEN /\ workspaces' = [workspaces EXCEPT ![wid] =
                  [id |-> NullId, created_by |-> NULL, name |-> NullText]]
             /\ members' = {m \in members : m.workspace_id # wid}
             /\ invites' = [i \in DOMAIN invites |->
                  IF invites[i].workspace_id = wid
                  THEN [invites[i] EXCEPT !.workspace_id = NullId,
                                          !.invite_token = NullText]
                  ELSE invites[i]]
        ELSE UNCHANGED <<workspaces, members, invites>>
     /\ last' = Response("deleteWorkspace", uid, <<wid>>,
                         IF visible THEN "ok" ELSE "no rows", NullId)
     /\ UNCHANGED <<now, pc, frame, granted>>
     /\ UNCHANGED authVars
     /\ UNCHANGED clientVars

\* insert into workspace_members (workspace_id, user_id, role), under the
\* policy workspace_members_insert_owners with check
\* (is_workspace_owner(workspace_id)) and the primary key of the table
InsertMember(uid, wid, userId, role) ==
  LET res == IF ~is_workspace_owner(members, wid, uid) THEN "policy violation"
             ELSE IF MemberRows(members, wid, userId) # {} THEN "unique violation"
             ELSE "ok"
  IN /\ last = NoResponse
     /\ members' = IF res = "ok"
                   THEN members \cup
                          {[workspace_id |-> wid, user_id |-> userId, role |-> role]}
                   ELSE members
     /\ last' = Response("insertMember", uid, <<wid, userId, role>>, res, NullId)
     /\ UNCHANGED <<workspaces, invites, now, pc, frame, granted>>
     /\ UNCHANGED authVars
     /\ UNCHANGED clientVars

----------------------------------------------------------------------------
(* Time passes: the clock moves to an instant just before, at or just      *)
(* after the expiry of some invite                                         *)

Instants ==
  {invites[i].expires_at + k : i \in DOMAIN invites, k \in {-1, 0, 1}}

Tick(t) ==
  /\ last = NoResponse
  /\ t \in Instants
  /\ t > now
  /\ t <= MaxNow
  /\ now' = t
  /\ UNCHANGED <<workspaces, members, invites, pc, frame, last, granted>>
  /\ UNCHANGED authVars
  /\ UNCHANGED clientVars

----------------------------------------------------------------------------
(* The caller receives the response; the next request can be made *)

Return ==
  /\ last # NoResponse
  /\ last' = NoResponse
  /\ UNCHANGED <<workspaces, members, invites, now, pc, frame, granted>>
  /\ UNCHANGED authVars
  /\ UNCHANGED clientVars

----------------------------------------------------------------------------
(* The order of text *)

\* The position of a letter in the alphabet, 0 for any other character
LetterIndex(c) ==
  IF \E i \in DOMAIN LowerLetters : LowerLetters[i] = LowerChar(c)
  THEN CHOOSE i \in DOMAIN LowerLetters : LowerLetters[i] = LowerChar(c)
  ELSE 0

IsUpper(c) == \E i \in DOMAIN UpperLetters : UpperLetters[i] = c

\* The code of a character: space, upper-case letters, lower-case letters
CodePoint(c) ==
  IF IsUpper(c) THEN 64 + LetterIndex(c)
  ELSE IF LetterIndex(c) > 0 THEN 96 + LetterIndex(c)
  ELSE 32

\* -1, 0 or 1: the order of two sequences of numbers, element by element
RECURSIVE CompareSeq(_, _)
CompareSeq(a, b) ==
  IF a = <<>> /\ b = <<>> THEN 0
  ELSE IF a = <<>> THEN -1
  ELSE IF b = <<>> THEN 1
  ELSE IF Head(a) < Head(b) THEN -1
  ELSE IF Head(a) > Head(b) THEN 1
  ELSE CompareSeq(Tail(a), Tail(b))

\* The collations a database can be created with: by code point ("C", upper
\* case first), or by letter with the case deciding between texts that are
\* equal otherwise ("en_US", lower case first).  Under both, two different
\* texts are never equal.
Collations == {"C", "en_US"}

CompareText(a, b, collation) ==
  IF collation = "C"
  THEN CompareSeq([i \in DOMAIN a |-> CodePoint(a[i])],
                  [i \in DOMAIN b |-> CodePoint(b[i])])
  ELSE LET byLetter == CompareSeq([i \in DOMAIN a |-> LetterIndex(a[i])],
                                  [i \in DOMAIN b |-> LetterIndex(b[i])])
       IN IF byLetter # 0 THEN byLetter
          ELSE CompareSeq([i \in DOMAIN a |-> IF IsUpper(a[i]) THEN 1 ELSE 0],
                          [i \in DOMAIN b |-> IF IsUpper(b[i]) THEN 1 ELSE 0])

\* String.prototype.localeCompare
localeCompare(a, b) == CompareText(a, b, "en_US")

\* The sequences that hold every element of S once
Arrangements(S) ==
  {s \in [1..Cardinality(S) -> S] :
     \A i \in DOMAIN s, j \in DOMAIN s : i # j => s[i] # s[j]}

----------------------------------------------------------------------------
(* list_workspace_members(wid), called by uid; fetchWorkspaceMembers of the  *)
(* client store                                                             *)

\* case wm.role when 'owner' then 1 when 'coach' then 2 when 'member' then 3
\* else 9 end
RoleOrder(role) ==
  CASE role = "owner" -> 1 [] role = "coach" -> 2 [] role = "member" -> 3
    [] OTHER -> 9

\* x sorts before y under
\* order by case wm.role ... end, coalesce(u.email, ''), wm.created_at
SqlBefore(x, y, collation) ==
  \/ RoleOrder(x.role) < RoleOrder(y.role)
  \/ /\ RoleOrder(x.role) = RoleOrder(y.role)
     /\ \/ CompareText(x.email, y.email, collation) < 0
        \/ /\ CompareText(x.email, y.email, collation) = 0
           /\ x.created_at < y.created_at

\* The results "return query select ... order by ..." can give for the rows:
\* rows that are equal in every sort key come in any order
OrderBy(rows, collation) ==
  {s \in Arrangements(rows) :
     \A i \in DOMAIN s, j \in DOMAIN s :
       i < j => ~SqlBefore(s[j], s[i], collation)}

\* The rows of wid, joined with auth.users.  The join time of a membership
\* is not kept in the tables of this model: the accounts have different
\* emails, so among the rows of one workspace the third sort key never
\* decides.
MemberEntries(ms, wid) ==
  {[user_id |-> m.user_id, email |-> EmailOf[m.user_id], role |-> m.role,
    created_at |-> NullTime] : m \in {x \in ms : x.workspace_id = wid}}

ListMembers(uid, wid) ==
  LET res == ListMembersOutcome(members, uid, wid)
  IN /\ last = NoResponse
     /\ \E collation \in Collations :
          \E rows \in OrderBy(MemberEntries(members, wid), collation) :
            last' = Response("listMembers", uid, <<wid>>, res,
                             IF res = "ok" THEN rows ELSE <<>>)
     /\ UNCHANGED <<workspaces, members, invites, now, pc, frame, granted>>
     /\ UNCHANGED authVars
     /\ UNCHANGED clientVars

\* roleRank of sortWorkspaceMembers
roleRank == [role \in Roles |->
  CASE role = "owner" -> 0 [] role = "coach" -> 1 [] OTHER -> 2]

\* The order of the account ids as texts
IdRank(a) == CASE a = "a1" -> 1 [] a = "a2" -> 2 [] OTHER -> 3

\* The comparator of sortWorkspaceMembers: negative, zero or positive
CompareMembers(a, b) ==
  LET roleDiff == roleRank[a.role] - roleRank[b.role]
      emailA == Lower(a.email)
      emailB == Lower(b.email)
  IN IF roleDiff # 0 THEN roleDiff
     ELSE IF emailA # emailB THEN localeCompare(emailA, emailB)
     ELSE IdRank(a.user_id) - IdRank(b.user_id)

\* [...workspaceMembers].sort(comparator): a stable sort
sortWorkspaceMembers(workspaceMembers) ==
  LET n == Len(workspaceMembers)
      p == CHOOSE q \in [1..n -> 1..n] :
             /\ \A i \in 1..n, j \in 1..n : i # j => q[i] # q[j]
             /\ \A i \in 1..n, j \in 1..n :
                  i < j =>
                    LET c == CompareMembers(workspaceMembers[q[i]],
                                            workspaceMembers[q[j]])
                    IN c < 0 \/ (c = 0 /\ q[i] < q[j])
  IN [i \in 1..n |-> workspaceMembers[p[i]]]

\* "return query" of list_workspace_members over the joined rows
ReturnQuery(rows, collation) ==
  /\ last = NoResponse
  /\ \E data \in OrderBy(rows, collation) :
       last' = Response("list_workspace_members", NULL, <<rows>>, "ok", data)
  /\ UNCHANGED <<workspaces, members, invites, now, pc, frame, granted>>
  /\ UNCHANGED authVars
  /\ UNCHANGED clientVars

\* fetchWorkspaceMembers: the rows of the remote call, sorted again
FetchWorkspaceMembers(rows, collation) ==
  /\ last = NoResponse
  /\ \E data \in OrderBy(rows, collation) :
       last' = Response("fetchWorkspaceMembers", NULL, <<rows>>, "ok",
                        sortWorkspaceMembers(data))
  /\ UNCHANGED <<workspaces, members, invites, now, pc, frame, granted>>
  /\ UNCHANGED authVars
  /\ UNCHANGED clientVars

----------------------------------------------------------------------------
(* The auth provider and the identity table, as the login handler calls     *)
(* them.  Every call answers {data, error}.  A call with ok = FALSE could   *)
(* not be served ("unavailable") and changed nothing.                       *)

ThrewNever(result) == FALSE

\* if (result.error) { throw result.error }
Threw(result) == result.error # NULL

\* The account registered with email, NullId when there is none
AccountWithEmail(us, email) ==
  IF \E i \in DOMAIN us : us[i].email = email
  THEN CHOOSE i \in DOMAIN us : us[i].email = email
  ELSE NullId

\* from('telegram_identities').select('user_id').eq('telegram_user_id', id)
\* .maybeSingle(): no row is data = null, not an error
selectIdentity(ids, ok, telegramUserId) ==
  IF ~ok THEN [error |-> "unavailable", user_id |-> NullId]
  ELSE IF \E row \in ids : row.telegram_user_id = telegramUserId
       THEN [error |-> NULL,
             user_id |-> (CHOOSE row \in ids :
                            row.telegram_user_id = telegramUserId).user_id]
       ELSE [error |-> NULL, user_id |-> NullId]

createUserDuplicate(us, ok, email, password) ==
  IF ~ok THEN [error |-> "unavailable", users |-> us, id |-> NullId]
  ELSE [error |-> NULL,
        users |-> Append(us, [id |-> Len(us) + 1, email |-> email,
                              password |-> password]),
        id |-> Len(us) + 1]

createUserUnsaved(us, ok, email, password) ==
  IF ~ok THEN [error |-> "unavailable", users |-> us, id |-> NullId]
  ELSE IF AccountWithEmail(us, email) # NullId
       THEN [error |-> "email_exists", users |-> us, id |-> NullId]
       ELSE [error |-> NULL, users |-> us, id |-> Len(us) + 1]

\* auth.admin.createUser({email, password, email_confirm: true}): the auth
\* provider keeps the email of its accounts unique and answers an error for
\* an email that is registered already
createUser(us, ok, email, password) ==
  IF ~ok THEN [error |-> "unavailable", users |-> us, id |-> NullId]
  ELSE IF AccountWithEmail(us, email) # NullId
       THEN [error |-> "email_exists", users |-> us, id |-> NullId]
       ELSE [error |-> NULL,
             users |-> Append(us, [id |-> Len(us) + 1, email |-> email,
                                   password |-> password]),
             id |-> Len(us) + 1]

\* normalizeOptional: null for a missing or blank text, else the trimmed text
normalizeOptional(value) ==
  IF value = NullText \/ Trim(value) = <<>> THEN NullText ELSE Trim(value)

\* from('telegram_identities').upsert({telegram_user_id, user_id, ...},
\* {onConflict: 'telegram_user_id'}), under the constraints of the table:
\* user_id references auth.users(id), and user_id is unique
\* The row written by the upsert: the insert takes the default now() for
\* created_at; on conflict the update sets the columns that the call names
\* and keeps created_at
UpsertedRow(ids, telegramUserId, userId, profile, t) ==
  [telegram_user_id |-> telegramUserId,
   user_id |-> userId,
   username |-> normalizeOptional(profile.username),
   first_name |-> normalizeOptional(profile.first_name),
   last_name |-> normalizeOptional(profile.last_name),
   created_at |->
     IF \E row \in ids : row.telegram_user_id = telegramUserId
     THEN (CHOOSE row \in ids : row.telegram_user_id = telegramUserId).created_at
     ELSE t,
   last_auth_at |-> t]

\* Mutant: the row of the id is deleted and inserted anew
upsertIdentityAnew(ids, us, ok, telegramUserId, userId, profile, t) ==
  IF ~ok THEN [error |-> "unavailable", identities |-> ids]
  ELSE IF userId \notin DOMAIN us
       THEN [error |-> "foreign key violation", identities |-> ids]
  ELSE IF \E row \in ids : /\ row.user_id = userId
                           /\ row.telegram_user_id # telegramUserId
       THEN [error |-> "unique violation", identities |-> ids]
  ELSE [error |-> NULL,
        identities |-> {row \in ids : row.telegram_user_id # telegramUserId}
                         \cup {UpsertedRow({}, telegramUserId, userId, profile, t)}]

upsertIdentity(ids, us, ok, telegramUserId, userId, profile, t) ==
  IF ~ok THEN [error |-> "unavailable", identities |-> ids]
  ELSE IF userId \notin DOMAIN us
       THEN [error |-> "foreign key violation", identities |-> ids]
  ELSE IF \E row \in ids : /\ row.user_id = userId
                           /\ row.telegram_user_id # telegramUserId
       THEN [error |-> "unique violation", identities |-> ids]
  ELSE [error |-> NULL,
        identities |-> {row \in ids : row.telegram_user_id # telegramUserId}
                         \cup {UpsertedRow(ids, telegramUserId, userId, profile, t)}]

\* auth.admin.updateUserById(userId, {password, user_metadata})
updateUserById(us, ok, userId, password) ==
  IF ~ok THEN [error |-> "unavailable", users |-> us]
  ELSE IF userId \notin DOMAIN us THEN [error |-> "user_not_found", users |-> us]
  ELSE [error |-> NULL, users |-> [us EXCEPT ![userId].password = password]]

\* signInResult.data.session of a sign-in that gave none
NoSession == [access_token |-> NullText, refresh_token |-> NullText]

\* auth.signInWithPassword({email, password})
signInWithPassword(us, ok, email, password) ==
  LET id == AccountWithEmail(us, email)
  IN IF ~ok THEN [error |-> "unavailable", session |-> NoSession]
     ELSE IF id = NullId \/ us[id].password # password
          THEN [error |-> "invalid_credentials", session |-> NoSession]
     ELSE [error |-> NULL,
           session |-> [access_token |-> <<"access", ToString(id)>>,
                        refresh_token |-> <<"refresh", ToString(id)>>]]

----------------------------------------------------------------------------
(* The login handler, one action per awaited call                           *)

\* The outcome of a call, as the trail of the request records it (history)
Outcome(result) == IF result.error = NULL THEN "ok" ELSE result.error

\* catch (error) { return jsonResponse({error: message}, 400) }
Catch(f, step, message) ==
  [f EXCEPT !.pc = "done",
            !.response = jsonResponse([error |-> message], 400),
            !.trail = Append(@, <<step, message>>)]

\* What the stores hold for telegramUserId
Snapshot(telegramUserId) ==
  LET account == AccountWithEmail(users, deriveAuthEmail(telegramUserId))
  IN [user_id |-> selectIdentity(identities, TRUE, telegramUserId).user_id,
      account |-> account,
      password |-> IF account = NullId THEN NoPassword
                   ELSE users[account].password]

\* Mutant: what verifyInitData throws is not caught
ArriveUncaught(r, credential, profile, request) ==
  /\ login[r].pc = "idle"
  /\ \A q \in Requests : q < r => login[q].pc # "idle"
  /\ login' = [login EXCEPT ![r] =
       [@ EXCEPT !.pc = "select",
                 !.telegramUser = credential,
                 !.password = deriveAuthPassword(credential, secret),
                 !.before = Snapshot(credential),
                 !.trail = <<<<"verifyInitData", "ok">>>>,
                 !.request = request,
                 !.profile = profile]]
  /\ UNCHANGED <<users, identities, secret>>
  /\ UNCHANGED storeVars
  /\ UNCHANGED clientVars

\* verifyInitData, deriveAuthEmail, deriveAuthPassword.  credential is the
\* id of the Telegram user a verified initData names, NullId for an initData
\* that verifyInitData rejects.
Arrive(r, credential, profile, request) ==
  /\ login[r].pc = "idle"
  /\ \A q \in Requests : q < r => login[q].pc # "idle"
  /\ login' = [login EXCEPT ![r] =
       IF credential = NullId
       THEN Catch([@ EXCEPT !.request = request],
                  "verifyInitData", "initData rejected")
       ELSE [@ EXCEPT !.pc = "select",
                      !.telegramUser = credential,
                      !.password = deriveAuthPassword(credential, secret),
                      !.before = Snapshot(credential),
                      !.trail = <<<<"verifyInitData", "ok">>>>,
                      !.request = request,
                      !.profile = profile]]
  /\ UNCHANGED <<users, identities, secret>>
  /\ UNCHANGED storeVars
  /\ UNCHANGED clientVars

\* A POST to the configured function with an initData in its body arrives
Receive(r, credential) == Arrive(r, credential, NoProfile, NoRequest)

\* username, first_name and last_name of the user of the initData
Profiles ==
  {NoProfile,
   [username |-> <<"u", " ">>, first_name |-> <<" ">>, last_name |-> <<"L">>]}

\* The same, for an initData whose user names itself
ReceiveUser(r, credential, profile) == Arrive(r, credential, profile, NoRequest)

\* The clock of the function and of the database moves on
Advance ==
  /\ now < MaxNow
  /\ now' = now + 1
  /\ UNCHANGED <<workspaces, members, invites, pc, frame, last, granted>>
  /\ UNCHANGED authVars
  /\ UNCHANGED clientVars

AfterSelectAlwaysNew(f, found) ==
  [f EXCEPT !.userId = found,
            !.isNewUser = TRUE,
            !.pc = IF found = NullId THEN "createUser" ELSE "upsert",
            !.trail = Append(@, <<"select", "ok">>)]

\* let userId = identityResult.data?.user_id ?? null; let isNewUser = false;
\* if (!userId) { createUser ... }
AfterSelect(f, found) ==
  [f EXCEPT !.userId = found,
            !.isNewUser = FALSE,
            !.pc = IF found = NullId THEN "createUser" ELSE "upsert",
            !.trail = Append(@, <<"select", "ok">>)]

SelectIdentity(r, ok) ==
  LET f == login[r]
      identityResult == selectIdentity(identities, ok, f.telegramUser)
  IN /\ f.pc = "select"
     /\ login' = [login EXCEPT ![r] =
          IF Threw(identityResult) THEN Catch(f, "select", identityResult.error)
          ELSE AfterSelect(f, identityResult.user_id)]
     /\ UNCHANGED <<users, identities, secret>>
     /\ UNCHANGED storeVars
     /\ UNCHANGED clientVars

CreateUser(r, ok) ==
  LET f == login[r]
      createdUserResult ==
        createUser(users, ok, deriveAuthEmail(f.telegramUser), f.password)
  IN /\ f.pc = "createUser"
     /\ users' = createdUserResult.users
     /\ login' = [login EXCEPT ![r] =
          IF Threw(createdUserResult)
          THEN Catch(f, "createUser", createdUserResult.error)
          ELSE [f EXCEPT !.userId = createdUserResult.id,
                         !.isNewUser = TRUE,
                         !.pc = "upsert",
                         !.trail = Append(@, <<"createUser", Outcome(createdUserResult)>>)]]
     /\ UNCHANGED <<identities, secret>>
     /\ UNCHANGED storeVars
     /\ UNCHANGED clientVars

UpsertIdentity(r, ok) ==
  LET f == login[r]
      identityUpsert ==
        upsertIdentity(identities, users, ok, f.telegramUser, f.userId,
                       f.profile, now)
  IN /\ f.pc = "upsert"
     /\ identities' = identityUpsert.identities
     /\ login' = [login EXCEPT ![r] =
          IF Threw(identityUpsert) THEN Catch(f, "upsert", identityUpsert.error)
          ELSE [f EXCEPT !.pc = "updateUserById",
                         !.trail = Append(@, <<"upsert", Outcome(identityUpsert)>>)]]
     /\ UNCHANGED <<users, secret>>
     /\ UNCHANGED storeVars
     /\ UNCHANGED clientVars

UpdateUser(r, ok) ==
  LET f == login[r]
      updateUserResult == updateUserById(users, ok, f.userId, f.password)
  IN /\ f.pc = "updateUserById"
     /\ users' = updateUserResult.users
     /\ login' = [login EXCEPT ![r] =
          IF Threw(updateUserResult)
          THEN Catch(f, "updateUserById", updateUserResult.error)
          ELSE [f EXCEPT !.pc = "signInWithPassword",
                         !.trail = Append(@, <<"updateUserById", Outcome(updateUserResult)>>)]]
     /\ UNCHANGED <<identities, secret>>
     /\ UNCHANGED storeVars
     /\ UNCHANGED clientVars

SignIn(r, ok) ==
  LET f == login[r]
      signInResult ==
        signInWithPassword(users, ok, deriveAuthEmail(f.telegramUser), f.password)
      responsePayload ==
        [accessToken |-> signInResult.session.access_token,
         refreshToken |-> signInResult.session.refresh_token,
         userId |-> f.userId,
         isNewUser |-> f.isNewUser]
  IN /\ f.pc = "signInWithPassword"
     /\ login' = [login EXCEPT ![r] =
          IF Threw(signInResult) \/ signInResult.session = NoSession
          THEN Catch(f, "signInWithPassword",
                     IF signInResult.error # NULL THEN signInResult.error
                     ELSE "no session")
          ELSE [f EXCEPT !.pc = "done",
                         !.response = jsonResponse(responsePayload, 200),
                         !.trail = Append(@, <<"signInWithPassword", Outcome(signInResult)>>)]]
     /\ UNCHANGED <<users, identities, secret>>
     /\ UNCHANGED storeVars
     /\ UNCHANGED clientVars

\* The operator deploys the function with another password secret
RotateSecret(s) ==
  /\ s # secret
  /\ secret' = s
  /\ UNCHANGED <<users, identities, login>>
  /\ UNCHANGED storeVars
  /\ UNCHANGED clientVars

\* A request arrives while no other request is being served
ReceiveInTurn(r, credential) ==
  /\ \A q \in Requests : login[q].pc \in {"idle", "done"}
  /\ Receive(r, credential)

----------------------------------------------------------------------------
(* The handler from the request to verifyInitData                          *)

\* request.method
Methods == {"OPTIONS", "POST", "GET"}

\* The variables that line 169 requires
RequiredEnv ==
  {"SUPABASE_URL", "SUPABASE_SERVICE_ROLE_KEY", "TELEGRAM_BOT_TOKEN",
   "TELEGRAM_AUTH_PASSWORD_SECRET"}

\* The required variables that are unset or empty: none, one, or all
MissingEnv == {{}, RequiredEnv} \cup {{name} : name \in RequiredEnv}

\* The body of the request: no JSON; the JSON null; an object without
\* initData; one whose initData is a number; one whose initData is blank;
\* one whose initData verifyInitData rejects (NullId) or accepts for an id
Bodies ==
  {[json |-> kind, initData |-> NullId] :
     kind \in {"malformed", "null", "object", "number", "blank"}}
    \cup {[json |-> "initData", initData |-> credential] :
            credential \in {NullId} \cup TelegramIds}

\* payload.initData?.trim() ?? '': reading the property of null throws a
\* TypeError, and so does calling trim on a value that is no string
ReadInitData(body) ==
  CASE body.json \in {"null", "number"} -> "TypeError"
    [] body.json \in {"object", "blank"} -> "blank"
    [] OTHER -> "text"

\* The response of the handler to a request that it answers before
\* verifyInitData, NoLoginResponse when it goes on to verifyInitData; an
\* exception that leaves the handler is answered by Deno.serve with 500
Prelude(request) ==
  IF request.method = "OPTIONS" THEN [status |-> 200, body |-> "ok"]
  ELSE IF request.method # "POST"
       THEN jsonResponse([error |-> "Method not allowed"], 405)
  ELSE IF request.missing # {}
       THEN jsonResponse([error |-> "Function is not configured"], 500)
  ELSE IF request.body.json = "malformed"
       THEN jsonResponse([error |-> "bad JSON body"], 400)
  ELSE IF ReadInitData(request.body) = "TypeError"
       THEN [status |-> 500, body |-> "Internal Server Error"]
  ELSE IF ReadInitData(request.body) = "blank"
       THEN jsonResponse([error |-> "initData required"], 400)
  ELSE NoLoginResponse

\* An HTTP request arrives while no other request is being served, and
\* runs up to the first awaited call of the try block
Serve(r, request) ==
  /\ \A q \in Requests : login[q].pc \in {"idle", "done"}
  /\ IF Prelude(request) = NoLoginResponse
     THEN Arrive(r, request.body.initData, NoProfile, request)
     ELSE /\ login[r].pc = "idle"
          /\ \A q \in Requests : q < r => login[q].pc # "idle"
          /\ login' = [login EXCEPT ![r] =
               [@ EXCEPT !.pc = "done", !.response = Prelude(request),
                         !.request = request]]
          /\ UNCHANGED <<users, identities, secret>>
          /\ UNCHANGED storeVars
          /\ UNCHANGED clientVars

----------------------------------------------------------------------------
(* Numbers, bits and characters, as the login function computes with them   *)

\* A JavaScript number: an integer, or NaN
Num(n) == [finite |-> TRUE, n |-> n]
NaN == [finite |-> FALSE, n |-> 0]

\* a > b: false when a side is NaN
Greater(a, b) == a.finite /\ b.finite /\ a.n > b.n

Plus(a, b) == IF a.finite /\ b.finite THEN Num(a.n + b.n) ELSE NaN

Minus(a, b) == IF a.finite /\ b.finite THEN Num(a.n - b.n) ELSE NaN

\* a ^ b and a | b on non-negative integers
RECURSIVE BitXor(_, _)
BitXor(a, b) ==
  IF a = 0 /\ b = 0 THEN 0
  ELSE (((a % 2) + (b % 2)) % 2) + 2 * BitXor(a \div 2, b \div 2)

RECURSIVE BitOr(_, _)
BitOr(a, b) ==
  IF a = 0 /\ b = 0 THEN 0
  ELSE (IF (a % 2) = 1 \/ (b % 2) = 1 THEN 1 ELSE 0) + 2 * BitOr(a \div 2, b \div 2)

DecimalDigits == <<"0", "1", "2", "3", "4", "5", "6", "7", "8", "9">>

HexDigits == DecimalDigits \o <<"a", "b", "c", "d", "e", "f">>

IsDigit(c) == \E i \in DOMAIN DecimalDigits : DecimalDigits[i] = c

\* String.prototype.charCodeAt, for the characters of the model
charCodeAt(c) ==
  IF IsDigit(c)
  THEN 47 + (CHOOSE i \in DOMAIN DecimalDigits : DecimalDigits[i] = c)
  ELSE CASE c = "!" -> 33 [] c = "%" -> 37 [] c = "-" -> 45 [] c = "_" -> 95
         [] OTHER -> CodePoint(c)

\* String.prototype.toLowerCase
toLowerCase(text) == [i \in DOMAIN text |-> LowerChar(text[i])]

\* String.prototype.toUpperCase
toUpperCase(text) ==
  [i \in DOMAIN text |->
     IF LetterIndex(text[i]) > 0 THEN UpperLetters[LetterIndex(text[i])]
     ELSE text[i]]

\* value.toString(16).padStart(2, '0') of a byte
ByteToHex(value) == <<HexDigits[(value \div 16) + 1], HexDigits[(value % 16) + 1]>>

\* bytesToHex: two hex characters per byte, joined
RECURSIVE bytesToHex(_)
bytesToHex(bytes) ==
  IF bytes = <<>> THEN <<>>
  ELSE ByteToHex(Head(bytes)) \o bytesToHex(Tail(bytes))

\* The for loop of constantTimeEqual: diff |= left[index] ^ right[index]
RECURSIVE XorAccumulate(_, _, _, _)
XorAccumulate(left, right, index, diff) ==
  IF index > Len(left) THEN diff
  ELSE XorAccumulate(left, right, index + 1,
         BitOr(diff, BitXor(charCodeAt(left[index]), charCodeAt(right[index]))))

constantTimeEqualAnyLength(left, right) ==
  LET n == IF Len(left) <= Len(right) THEN Len(left) ELSE Len(right)
  IN XorAccumulate(SubSeq(left, 1, n), SubSeq(right, 1, n), 1, 0) = 0

constantTimeEqual(left, right) ==
  IF Len(left) # Len(right) THEN FALSE
  ELSE XorAccumulate(left, right, 1, 0) = 0

----------------------------------------------------------------------------
(* The fields of initData and the values of the environment                 *)

\* A value of URLSearchParams.get or of Deno.env.get, by what the function
\* reads from it: null (absent), the empty string, the decimal text of an
\* integer, a text that is neither a number nor JSON, a text of characters
\* (the hash), or the JSON text of the user field
NoValue == [kind |-> "null", n |-> 0, text |-> <<>>]
EmptyValue == [kind |-> "empty", n |-> 0, text |-> <<>>]
Digits(n) == [kind |-> "digits", n |-> n, text |-> <<>>]
Word == [kind |-> "word", n |-> 0, text |-> <<>>]
TextValue(text) == [kind |-> "text", n |-> 0, text |-> text]
JsonValue(kind, n) == [kind |-> kind, n |-> n, text |-> <<>>]

\* !value
Falsy(v) == v.kind \in {"null", "empty"}

\* Number(value): the integer of a decimal text, 0 for '', NaN otherwise
Number(v) ==
  CASE v.kind = "digits" -> Num(v.n)
    [] v.kind = "empty" -> Num(0)
    [] OTHER -> NaN

AuthDateKey == <<"a", "u", "t", "h", "_", "d", "a", "t", "e">>
HashKey == <<"h", "a", "s", "h">>
QueryIdKey == <<"q", "u", "e", "r", "y", "_", "i", "d">>
UserKey == <<"u", "s", "e", "r">>

ParamKeys == <<AuthDateKey, HashKey, QueryIdKey, UserKey>>

\* params.get(key): the value of the first entry with the key, or null
get(params, key) ==
  IF \E i \in DOMAIN params : params[i].key = key
  THEN params[CHOOSE i \in DOMAIN params :
                /\ params[i].key = key
                /\ \A j \in 1..(i - 1) : params[j].key # key].value
  ELSE NoValue

\* left.localeCompare(right) for every two keys
CompareKeys ==
  [left \in {ParamKeys[i] : i \in DOMAIN ParamKeys},
   right \in {ParamKeys[i] : i \in DOMAIN ParamKeys} |->
     localeCompare(left, right)]

\* entries.sort(([left], [right]) => left.localeCompare(right)): a stable
\* sort, by insertion
RECURSIVE InsertEntry(_, _)
InsertEntry(sorted, e) ==
  IF sorted = <<>> THEN <<e>>
  ELSE IF CompareKeys[e.key, sorted[Len(sorted)].key] >= 0
       THEN Append(sorted, e)
       ELSE Append(InsertEntry(SubSeq(sorted, 1, Len(sorted) - 1), e),
                   sorted[Len(sorted)])

RECURSIVE SortEntries(_)
SortEntries(entries) ==
  IF entries = <<>> THEN <<>>
  ELSE InsertEntry(SortEntries(SubSeq(entries, 1, Len(entries) - 1)),
                   entries[Len(entries)])

\* dataCheckString: the lines key=value of every entry but hash, sorted by
\* key; the sequence of the lines stands for their join by "\n"
dataCheckString(params) ==
  LET kept == SelectSeq(params, LAMBDA e : e.key # HashKey)
      sorted == SortEntries(kept)
  IN [i \in DOMAIN sorted |-> <<sorted[i].key, "=", sorted[i].value>>]

----------------------------------------------------------------------------
(* The bytes of a digest.  HMAC-SHA256 is not computed: a digest is the     *)
(* pair of its key and its message, and its bytes are the digits of a       *)
(* number that is different for every different pair.                       *)

\* The sequence of the elements of a set, in a fixed order
RECURSIVE Enumerate(_)
Enumerate(S) ==
  IF S = {} THEN <<>>
  ELSE LET e == CHOOSE e \in S : TRUE IN <<e>> \o Enumerate(S \ {e})

IndexIn(seq, e) == CHOOSE i \in DOMAIN seq : seq[i] = e

\* Values of TELEGRAM_BOT_TOKEN
BotTokens == {"t1", "t2"}

\* Math.floor(Date.now() / 1000) when the function runs
NowSeconds == 5000

\* auth_date, as its distance from now: the two sides of the future bound,
\* and of the age bound for a maximum age of 0, 60 and 3600 seconds
AgeOffsets == <<31, 30, 29, 0, -1, -60, -61, -3600, -3601>>

\* The values of the fields: absent, empty, a text that is no number and no
\* JSON; the decimal texts of auth_date; for the user field the JSON null,
\* an object without id, an object whose id is a text, and an object whose
\* id is a number
FieldValues ==
  <<NoValue, EmptyValue, Word>>
    \o [i \in DOMAIN AgeOffsets |-> Digits(NowSeconds + AgeOffsets[i])]
    \o <<JsonValue("json-null", 0), JsonValue("json-object", 0),
         JsonValue("json-id-text", 0)>>
    \o [id \in 1..MaxTelegramId |-> JsonValue("json-id-number", id)]

AuthDateValues ==
  {v \in {FieldValues[i] : i \in DOMAIN FieldValues} :
     v.kind \in {"null", "empty", "word", "digits"}}

UserValues ==
  {v \in {FieldValues[i] : i \in DOMAIN FieldValues} : v.kind # "digits"}

QueryIdValues == {NoValue, Word}

KeyStrings == <<"WebAppData", "t1", "t2">>

\* The number of a line key=value, from 1
LineNo(line) ==
  (IndexIn(ParamKeys, line[1]) - 1) * Len(FieldValues) + IndexIn(FieldValues, line[3])

LineBase == Len(ParamKeys) * Len(FieldValues) + 1

RECURSIVE MessageNo(_)
MessageNo(lines) ==
  IF lines = <<>> THEN 0
  ELSE MessageNo(SubSeq(lines, 1, Len(lines) - 1)) * LineBase
         + LineNo(lines[Len(lines)])

\* The fields of an initData besides hash: at most three in the model
MaxFields == 3

\* The low count bytes of n, most significant first
RECURSIVE ToBytes(_, _)
ToBytes(n, count) ==
  IF count = 0 THEN <<>>
  ELSE Append(ToBytes(n \div 256, count - 1), n % 256)

\* Bytes of a digest in the model (32 in the code)
DigestBytes == 3

\* new Uint8Array(signature) of hmacSha256(hmacSha256(a, b), dataCheckString)
SignatureBytes(digest) ==
  LET keyNo == (IndexIn(KeyStrings, digest.key.key) - 1) * Len(KeyStrings)
                 + IndexIn(KeyStrings, digest.key.value) - 1
  IN ToBytes(keyNo * (LineBase ^ MaxFields) + MessageNo(digest.value), DigestBytes)

\* new Uint8Array(signature) of hmacSha256(secret, `telegram:${id}`)
PasswordBytes(digest) ==
  LET secretNo == IndexIn(Enumerate(Secrets), digest.key)
      id == CHOOSE i \in TelegramIds : ToString(i) = digest.value[2]
  IN ToBytes((secretNo - 1) * MaxTelegramId + id - 1, DigestBytes)

----------------------------------------------------------------------------
(* verifyInitData *)

\* What verifyInitData returns, or the Error it throws
Verified(id) == [error |-> NULL, id |-> id]
Rejected(message) == [error |-> message, id |-> NullId]

\* parseTelegramUser: the user of the user field, if it is the JSON text of
\* an object whose id is a finite number
parseTelegramUser(params) ==
  LET rawUser == get(params, UserKey)
  IN IF Falsy(rawUser) THEN Rejected("no user")
     ELSE IF rawUser.kind \notin {"json-null", "json-object", "json-id-text",
                                  "json-id-number"}
          THEN Rejected("user unreadable")
     ELSE IF rawUser.kind = "json-null" \/ rawUser.kind = "json-object"
          THEN Rejected("user malformed")
     ELSE IF rawUser.kind # "json-id-number" THEN Rejected("user id malformed")
     ELSE Verified(rawUser.n)

secretKeyTokenAsKey(botToken) == hmacSha256(botToken, "WebAppData")

\* const secretKey = await hmacSha256('WebAppData', botToken)
secretKey(botToken) == hmacSha256("WebAppData", botToken)

\* const expectedHash = bytesToHex(await hmacSha256(secretKey, dataCheckString))
expectedHash(params, botToken) ==
  bytesToHex(SignatureBytes(hmacSha256(secretKey(botToken), dataCheckString(params))))

\* Seconds the function lets auth_date run ahead of its clock
FutureSkewSeconds == 30

verifyInitDataNoSkew(params, botToken, maxAgeSeconds, nowSeconds) ==
  LET hash == get(params, HashKey)
      authDateRaw == get(params, AuthDateKey)
      authDate == IF Falsy(authDateRaw) THEN NaN ELSE Number(authDateRaw)
  IN IF Falsy(hash) THEN Rejected("no hash")
     ELSE IF ~authDate.finite THEN Rejected("auth_date unreadable")
     ELSE IF Greater(authDate, nowSeconds) THEN Rejected("auth_date in the future")
     ELSE IF Greater(Minus(nowSeconds, authDate), maxAgeSeconds)
          THEN Rejected("initData expired")
     ELSE IF ~constantTimeEqual(expectedHash(params, botToken), toLowerCase(hash.text))
          THEN Rejected("bad signature")
     ELSE parseTelegramUser(params)

verifyInitDataExclusive(params, botToken, maxAgeSeconds, nowSeconds) ==
  LET hash == get(params, HashKey)
      authDateRaw == get(params, AuthDateKey)
      authDate == IF Falsy(authDateRaw) THEN NaN ELSE Number(authDateRaw)
  IN IF Falsy(hash) THEN Rejected("no hash")
     ELSE IF ~authDate.finite THEN Rejected("auth_date unreadable")
     ELSE IF Greater(authDate, Plus(nowSeconds, Num(FutureSkewSeconds)))
          THEN Rejected("auth_date in the future")
     ELSE IF ~Greater(maxAgeSeconds, Minus(nowSeconds, authDate))
          THEN Rejected("initData expired")
     ELSE IF ~constantTimeEqual(expectedHash(params, botToken), toLowerCase(hash.text))
          THEN Rejected("bad signature")
     ELSE parseTelegramUser(params)

verifyInitDataUnparsed(params, botToken, maxAgeSeconds, nowSeconds) ==
  LET hash == get(params, HashKey)
      authDateRaw == get(params, AuthDateKey)
      authDate == IF Falsy(authDateRaw) THEN NaN ELSE Number(authDateRaw)
  IN IF Falsy(hash) THEN Rejected("no hash")
     ELSE IF ~authDate.finite THEN Rejected("auth_date unreadable")
     ELSE IF Greater(authDate, Plus(nowSeconds, Num(FutureSkewSeconds)))
          THEN Rejected("auth_date in the future")
     ELSE IF Greater(Minus(nowSeconds, authDate), maxAgeSeconds)
          THEN Rejected("initData expired")
     ELSE IF ~constantTimeEqual(expectedHash(params, botToken), toLowerCase(hash.text))
          THEN Rejected("bad signature")
     ELSE Verified(1)

\* verifyInitData(initData, botToken, maxAgeSeconds), run when the clock of
\* the function shows nowSeconds.  params is new URLSearchParams(initData).
verifyInitData(params, botToken, maxAgeSeconds, nowSeconds) ==
  LET hash == get(params, HashKey)
      authDateRaw == get(params, AuthDateKey)
      authDate == IF Falsy(authDateRaw) THEN NaN ELSE Number(authDateRaw)
  IN IF Falsy(hash) THEN Rejected("no hash")
     ELSE IF ~authDate.finite THEN Rejected("auth_date unreadable")
     ELSE IF Greater(authDate, Plus(nowSeconds, Num(FutureSkewSeconds)))
          THEN Rejected("auth_date in the future")
     ELSE IF Greater(Minus(nowSeconds, authDate), maxAgeSeconds)
          THEN Rejected("initData expired")
     ELSE IF ~constantTimeEqual(expectedHash(params, botToken), toLowerCase(hash.text))
          THEN Rejected("bad signature")
     ELSE parseTelegramUser(params)

\* Seconds an initData stays valid when the function is not told otherwise
DefaultMaxAgeSeconds == 3600

\* Number(Deno.env.get('TELEGRAM_AUTH_MAX_AGE_SECONDS') ?? '3600')
maxAgeSeconds(env) ==
  Number(IF env = NoValue THEN Digits(DefaultMaxAgeSeconds) ELSE env)

\* Values of TELEGRAM_AUTH_MAX_AGE_SECONDS: not set, '', '60', no number
MaxAgeValues == {NoValue, EmptyValue, Digits(60), Word}

Entry(key, value) == [key |-> key, value |-> value]

Reverse(seq) == [i \in DOMAIN seq |-> seq[Len(seq) + 1 - i]]

\* The fields of an initData besides hash, in the order auth_date, query_id,
\* user or in the opposite order; a field of value null is absent
FieldSets ==
  {LET all == <<Entry(AuthDateKey, c[1]), Entry(QueryIdKey, c[2]), Entry(UserKey, c[3])>>
       present == SelectSeq(all, LAMBDA e : e.value # NoValue)
   IN IF c[4] THEN Reverse(present) ELSE present :
     c \in {d \in AuthDateValues \X QueryIdValues \X UserValues \X BOOLEAN :
              \/ d[1] = Digits(NowSeconds)
              \/ d[3] = JsonValue("json-id-number", 1)}}

\* The hash Telegram gives to fields for the bot whose token is botToken
Sign(fields, botToken) == expectedHash(fields, botToken)

NextHexDigit(c) ==
  IF \E i \in DOMAIN HexDigits : HexDigits[i] = c
  THEN HexDigits[((CHOOSE i \in DOMAIN HexDigits : HexDigits[i] = c) % 16) + 1]
  ELSE "0"

\* What a sender can make of a hash: the hash, one character of it in upper
\* case, one character changed, the last character dropped, one appended
Alterations(hash) ==
  {hash, SubSeq(hash, 1, Len(hash) - 1), Append(hash, "0")}
    \cup {[hash EXCEPT ![i] = toUpperCase(<<hash[i]>>)[1]] : i \in DOMAIN hash}
    \cup {[hash EXCEPT ![i] = NextHexDigit(hash[i])] : i \in DOMAIN hash}

\* The values of the hash field of an initData with the given other fields,
\* sent to the function of the bot botToken: none, empty, the hash of
\* Telegram for that bot and what can be made of it, the hash of Telegram
\* for another bot, and the hash computed with the bot token as the key of
\* the first HMAC
HashValues(fields, botToken) ==
  {NoValue, EmptyValue}
    \cup {TextValue(h) : h \in Alterations(Sign(fields, botToken))}
    \cup {TextValue(Sign(fields, t)) : t \in BotTokens}
    \cup {TextValue(bytesToHex(SignatureBytes(
            hmacSha256(secretKeyTokenAsKey(botToken), dataCheckString(fields)))))}

WithHash(fields, hash) ==
  IF hash = NoValue THEN fields ELSE Append(fields, Entry(HashKey, hash))

\* One run of verifyInitData, on an initData of the given fields and one of
\* the values of hash
VerifyInitData(fields, botToken, env) ==
  /\ last = NoResponse
  /\ \E hash \in HashValues(fields, botToken) :
       LET params == WithHash(fields, hash)
           telegramUser ==
             verifyInitData(params, botToken, maxAgeSeconds(env), Num(NowSeconds))
       IN last' = Response("verifyInitData", NULL, <<params, botToken, env>>,
                           IF telegramUser.error = NULL THEN "ok"
                           ELSE telegramUser.error,
                           telegramUser.id)
  /\ UNCHANGED <<workspaces, members, invites, now, pc, frame, granted>>
  /\ UNCHANGED authVars
  /\ UNCHANGED clientVars

\* The fields besides hash of the initData that the login requests carry:
\* auth_date absent, no number, beyond the future bound, now, or older than
\* the default maximum age; user of every value
SentFields ==
  {SelectSeq(<<Entry(AuthDateKey, a), Entry(UserKey, u)>>,
             LAMBDA e : e.value # NoValue) :
     a \in {NoValue, Word, Digits(NowSeconds + FutureSkewSeconds + 1),
            Digits(NowSeconds), Digits(NowSeconds - DefaultMaxAgeSeconds - 1)},
     u \in UserValues}

\* The hash field of these requests: none, the hash of Telegram for the
\* bot of the function or for another bot, and the former with its last
\* character changed
SentHashes(fields, botToken) ==
  LET hash == Sign(fields, botToken)
  IN {NoValue, TextValue(hash)}
       \cup {TextValue(Sign(fields, t)) : t \in BotTokens}
       \cup {TextValue([hash EXCEPT ![Len(hash)] = NextHexDigit(hash[Len(hash)])])}

\* The body of a POST whose initData is the text of params, sent to the
\* function deployed with botToken and the maximum age env
InitDataBody(params, botToken, env) ==
  [json |-> "initData", params |-> params, botToken |-> botToken, env |-> env]

\* const telegramUser = await verifyInitData(initData, botToken,
\* maxAgeSeconds), the first call of the try block, on the initData of a
\* request that arrives while no other request is being served
Login(r, fields, botToken, env) ==
  /\ login[r].pc = "idle"
  /\ \A q \in Requests : login[q].pc \in {"idle", "done"}
  /\ \E hash \in SentHashes(fields, botToken) :
       LET params == WithHash(fields, hash)
           telegramUser ==
             verifyInitData(params, botToken, maxAgeSeconds(env), Num(NowSeconds))
       IN Arrive(r, telegramUser.id, NoProfile,
                 HttpRequest("POST", {}, InitDataBody(params, botToken, env)))

\* The text of a password: `${digest.slice(0, 48)}Aa1!`
PasswordSliceLength == 48

PasswordText(password) ==
  LET digest == bytesToHex(PasswordBytes(password.digest))
  IN SubSeq(digest, 1, Least(PasswordSliceLength, Len(digest)))
       \o <<"A", "a", "1", "!">>

\* One evaluation of deriveAuthPassword
DeriveAuthPassword(telegramUserId, s) ==
  /\ last = NoResponse
  /\ last' = Response("deriveAuthPassword", NULL, <<telegramUserId, s>>, "ok",
                      PasswordText(deriveAuthPassword(telegramUserId, s)))
  /\ UNCHANGED <<workspaces, members, invites, now, pc, frame, granted>>
  /\ UNCHANGED authVars
  /\ UNCHANGED clientVars

\* One comparison of two texts by constantTimeEqual
ConstantTimeEqual(left, right) ==
  /\ last = NoResponse
  /\ last' = Response("constantTimeEqual", NULL, <<left, right>>,
                      IF constantTimeEqual(left, right) THEN "equal"
                      ELSE "different",
                      NullId)
  /\ UNCHANGED <<workspaces, members, invites, now, pc, frame, granted>>
  /\ UNCHANGED authVars
  /\ UNCHANGED clientVars

\* Texts to compare: every text of at most two of these characters
CompareAlphabet == {"0", "1", "a", "A"}

CompareTexts ==
  {<<>>} \cup {<<c>> : c \in CompareAlphabet}
         \cup {<<c, d>> : c \in CompareAlphabet, d \in CompareAlphabet}

----------------------------------------------------------------------------
(* The store of the mini app: init, signInWithTelegram, signOut,           *)
(* refreshWorkspaces, selectWorkspace and loadWorkspaceMembers, one action *)
(* per awaited call.  A call reads or writes the database when the server  *)
(* runs it; what follows the await runs when the response is back.         *)

\* The account that the login function gives to the Telegram user of the
\* clients: the clients are the devices of one user
Owner == "a1"

\* name of the workspace that ensureWorkspace creates
DefaultWorkspaceName == <<"O", "b", "s", "h", "c", "h", "e", "e">>

Run(c, s) == app[c].runs[s]

\* auth.uid() of the requests of client c
Uid(c) == app[c].session

\* select id, name, created_at from workspaces order by created_at, under
\* the policy workspaces_select_members: the ids of the rows
fetchWorkspaces(uid) ==
  SelectSeq([i \in DOMAIN workspaces |-> i],
            LAMBDA i : workspaces[i].id # NullId
                         /\ is_workspace_member(members, i, uid))

Contains(list, id) == \E i \in DOMAIN list : list[i] = id

\* Mutant: the saved workspace id is not looked at
activeWorkspaceIdOfList(list, savedWorkspaceId) ==
  IF Len(list) = 1 THEN list[1] ELSE NullId

\* hasSavedWorkspace ? savedWorkspaceId
\*   : workspaces.length === 1 ? workspaces[0].id : ''
activeWorkspaceId(list, savedWorkspaceId) ==
  IF savedWorkspaceId # NullId /\ Contains(list, savedWorkspaceId)
  THEN savedWorkspaceId
  ELSE IF Len(list) = 1 THEN list[1] ELSE NullId

\* loadWorkspaceScopedData(wid) for uid.  Every workspace holds one workout
\* and one template, which its members see; the list of the members is
\* empty when list_workspace_members raises
loadWorkspaceScopedData(wid, uid) ==
  LET visible == is_workspace_member(members, wid, uid)
  IN [workouts |-> IF visible THEN <<wid>> ELSE <<>>,
      templates |-> IF visible THEN <<wid>> ELSE <<>>,
      workspaceMembers |->
        IF ListMembersOutcome(members, uid, wid) = "ok"
        THEN {m \in members : m.workspace_id = wid} ELSE {}]

\* The first awaited call of a store action
FirstCall(op) ==
  CASE op = "init" -> "getSession"
    [] op = "signInWithTelegram" -> "createSession"
    [] op = "signOut" -> "signOut"
    [] op = "refreshWorkspaces" -> "fetch"
    [] op = "selectWorkspace" -> "load"
    [] OTHER -> "members"

\* The store action op is called in client c and runs up to its first
\* await; id is the argument of selectWorkspace.  refreshWorkspaces and
\* selectWorkspace return at once when nobody is signed in,
\* loadWorkspaceMembers when no workspace is active.
Start(c, s, op, id) ==
  LET store == app[c].store
  IN /\ Run(c, s).pc = "idle"
     /\ op \in {"refreshWorkspaces", "selectWorkspace"} => store.sessionUserId # NULL
     /\ op = "loadWorkspaceMembers" => store.workspaceId # NullId
     /\ app' = [app EXCEPT ![c].runs[s] =
          [IdleRun EXCEPT
             !.op = op,
             !.pc = FirstCall(op),
             !.savedWorkspaceId =
                IF op = "init" THEN app[c].saved
                ELSE IF op = "refreshWorkspaces" THEN store.workspaceId
                ELSE NullId,
             !.activeWorkspaceId =
                IF op = "selectWorkspace" THEN id
                ELSE IF op = "loadWorkspaceMembers" THEN store.workspaceId
                ELSE NullId]]
     /\ UNCHANGED storeVars
     /\ UNCHANGED authVars

\* init after supabase.auth.getSession(): without a session the store is
\* emptied and signInWithTelegram runs; with one, its user is signed in
GetSession(c, s) ==
  /\ Run(c, s).pc = "getSession"
  /\ app' = IF app[c].session = NULL
            THEN [app EXCEPT ![c].store = EmptyStore,
                             ![c].runs[s] =
                                [IdleRun EXCEPT !.op = "signInWithTelegram",
                                                !.pc = "createSession"]]
            ELSE [app EXCEPT ![c].store.sessionUserId = app[c].session,
                             ![c].runs[s].pc = "accept"]
  /\ UNCHANGED storeVars
  /\ UNCHANGED authVars

\* createTelegramSession(initData): the login function and setSession;
\* then the saved workspace id is read from the local storage
CreateSession(c, s, ok) ==
  /\ Run(c, s).pc = "createSession"
  /\ app' = IF ok
            THEN [app EXCEPT ![c].session = Owner,
                             ![c].runs[s].userId = Owner,
                             ![c].runs[s].savedWorkspaceId = app[c].saved,
                             ![c].runs[s].pc = "accept"]
            ELSE [app EXCEPT ![c].runs[s].pc = "catch"]
  /\ UNCHANGED storeVars
  /\ UNCHANGED authVars

\* Mutant: the store goes on before accept_workspace_invite has written
AcceptFromStartParamNotAwaited(c, s) ==
  LET inviteToken == app[c].inviteToken
      uid == Uid(c)
      v_token == Trim(CoalesceText(inviteToken, <<>>))
      row == FindInvite(invites, v_token)
      res == IF inviteToken = NullText THEN "no invite"
             ELSE AcceptOutcome(uid, inviteToken, row, now)
  IN /\ Run(c, s).pc = "accept"
     /\ app' = IF res = "ok"
               THEN [app EXCEPT ![c].runs[s].acceptedInvite = row.workspace_id,
                                ![c].runs[s].savedWorkspaceId = row.workspace_id,
                                ![c].runs[s].pc = "fetch"]
               ELSE [app EXCEPT ![c].runs[s].pc = "fetch"]
     /\ UNCHANGED storeVars
     /\ UNCHANGED authVars

\* acceptInviteFromStartParam(): null without an invite token, else
\* accept_workspace_invite; what it throws is caught and only reported.
\* Then buildAuthBootstrapData(acceptedInvite?.workspaceId ?? savedWorkspaceId)
AcceptFromStartParam(c, s) ==
  LET inviteToken == app[c].inviteToken
      uid == Uid(c)
      v_token == Trim(CoalesceText(inviteToken, <<>>))
      row == FindInvite(invites, v_token)
      res == IF inviteToken = NullText THEN "no invite"
             ELSE AcceptOutcome(uid, inviteToken, row, now)
      ms2 == UpsertMemberRatchet(members, row.workspace_id, uid, row.role)
  IN /\ Run(c, s).pc = "accept"
     /\ IF res = "ok"
        THEN /\ members' = ms2
             /\ invites' = MarkAccepted(invites, row.id, uid, now)
             /\ granted' = Granted(members, ms2, row.id, uid)
             /\ app' = [app EXCEPT ![c].runs[s].acceptedInvite = row.workspace_id,
                                   ![c].runs[s].savedWorkspaceId = row.workspace_id,
                                   ![c].runs[s].pc = "fetch"]
        ELSE /\ UNCHANGED <<members, invites, granted>>
             /\ app' = [app EXCEPT ![c].runs[s].pc = "fetch"]
     /\ UNCHANGED <<workspaces, now, pc, frame, last>>
     /\ UNCHANGED authVars

\* The end of ensureWorkspace: the run goes on to loadWorkspaceScopedData
\* when a workspace is active, else to the set of the store
Resolved(run, list) ==
  LET active == activeWorkspaceId(list, run.savedWorkspaceId)
  IN [run EXCEPT !.workspaces = list,
                 !.activeWorkspaceId = active,
                 !.pc = IF active # NullId THEN "load" ELSE "set"]

\* ensureWorkspace: await fetchWorkspaces(), the first time and after the
\* workspace was created
FetchWorkspaces(c, s, ok) ==
  LET run == Run(c, s)
      fetched == fetchWorkspaces(Uid(c))
      list == IF run.pc = "refetch" /\ Len(fetched) = 0 /\ run.data # NullId
              THEN <<run.data>> ELSE fetched
  IN /\ run.pc \in {"fetch", "refetch"}
     /\ app' = [app EXCEPT ![c].runs[s] =
          IF ~ok THEN [run EXCEPT !.pc = "catch"]
          ELSE IF run.pc = "fetch" /\ Len(list) = 0
               THEN [run EXCEPT !.workspaces = list, !.pc = "create"]
          ELSE Resolved(run, list)]
     /\ UNCHANGED storeVars
     /\ UNCHANGED authVars

\* ensureWorkspace: supabase.rpc('create_workspace_with_owner', {name})
CreateDefaultWorkspace(c, s, ok) ==
  LET run == Run(c, s)
      uid == Uid(c)
      res == IF ok THEN CreateWorkspaceOutcome(uid, DefaultWorkspaceName)
             ELSE "unavailable"
      new_workspace_id == Len(workspaces) + 1
  IN /\ run.pc = "create"
     /\ res = "ok" => Len(workspaces) < MaxProvisioned
     /\ IF res = "ok"
        THEN /\ workspaces' = Append(workspaces,
                  [id |-> new_workspace_id, created_by |-> uid,
                   name |-> Trim(DefaultWorkspaceName)])
             /\ members' = members \cup
                  {[workspace_id |-> new_workspace_id, user_id |-> uid, role |-> "owner"]}
             /\ app' = [app EXCEPT ![c].runs[s].autoCreated = TRUE,
                                   ![c].runs[s].data = new_workspace_id,
                                   ![c].runs[s].pc = "refetch"]
        ELSE /\ UNCHANGED <<workspaces, members>>
             /\ app' = [app EXCEPT ![c].runs[s].pc = "catch"]
     /\ UNCHANGED <<invites, now, pc, frame, last, granted>>
     /\ UNCHANGED authVars

\* await loadWorkspaceScopedData(activeWorkspaceId); fetchWorkouts and
\* fetchTemplates throw when they fail
LoadWorkspaceScopedData(c, s, ok) ==
  LET run == Run(c, s)
  IN /\ run.pc = "load"
     /\ app' = [app EXCEPT ![c].runs[s] =
          IF ~ok THEN [run EXCEPT !.pc = "catch"]
          ELSE [run EXCEPT
                  !.loaded = loadWorkspaceScopedData(run.activeWorkspaceId, Uid(c)),
                  !.pc = "set"]]
     /\ UNCHANGED storeVars
     /\ UNCHANGED authVars

\* loadWorkspaceMembers: await fetchWorkspaceMembers(workspaceId), which
\* throws when list_workspace_members raises
FetchMembers(c, s, ok) ==
  LET run == Run(c, s)
      res == IF ok THEN ListMembersOutcome(members, Uid(c), run.activeWorkspaceId)
             ELSE "unavailable"
  IN /\ run.pc = "members"
     /\ app' = [app EXCEPT ![c].runs[s] =
          IF res # "ok" THEN [run EXCEPT !.pc = "catch"]
          ELSE [run EXCEPT
                  !.loaded.workspaceMembers =
                     {m \in members : m.workspace_id = run.activeWorkspaceId},
                  !.pc = "set"]]
     /\ UNCHANGED storeVars
     /\ UNCHANGED authVars

\* signOut: await supabase.auth.signOut()
SignOut(c, s, ok) ==
  /\ Run(c, s).pc = "signOut"
  /\ app' = IF ok
            THEN [app EXCEPT ![c].session = NULL, ![c].runs[s].pc = "set"]
            ELSE [app EXCEPT ![c].runs[s].pc = "catch"]
  /\ UNCHANGED storeVars
  /\ UNCHANGED authVars

\* Mutant: the set of signInWithTelegram does not sign the user in
StoreAfterBootstrapSignedOut(store, run) ==
  [sessionUserId |-> store.sessionUserId,
   workspaceId |-> run.activeWorkspaceId,
   workspaces |-> run.workspaces,
   workspaceSelectionRequired |->
     Len(run.workspaces) > 1 /\ run.activeWorkspaceId = NullId,
   workouts |-> run.loaded.workouts,
   templates |-> run.loaded.templates,
   workspaceMembers |-> run.loaded.workspaceMembers]

\* The store after the set of init, signInWithTelegram or refreshWorkspaces
StoreAfterBootstrap(store, run) ==
  [sessionUserId |-> IF run.op = "signInWithTelegram" THEN run.userId
                     ELSE store.sessionUserId,
   workspaceId |-> run.activeWorkspaceId,
   workspaces |-> run.workspaces,
   workspaceSelectionRequired |->
     Len(run.workspaces) > 1 /\ run.activeWorkspaceId = NullId,
   workouts |-> run.loaded.workouts,
   templates |-> run.loaded.templates,
   workspaceMembers |-> run.loaded.workspaceMembers]

\* The last continuation of a store action that did not throw: the write
\* to the local storage and the set of the store
SetStore(c, s) ==
  LET run == Run(c, s)
      store == app[c].store
  IN /\ run.pc = "set"
     /\ app' = [app EXCEPT
          ![c].runs[s] = IdleRun,
          ![c].saved =
             IF run.op = "loadWorkspaceMembers" THEN app[c].saved
             ELSE IF run.op = "signOut" THEN NullId
             ELSE run.activeWorkspaceId,
          ![c].store =
             IF run.op = "signOut" THEN EmptyStore
             ELSE IF run.op = "loadWorkspaceMembers"
                  THEN [store EXCEPT !.workspaceMembers = run.loaded.workspaceMembers]
             ELSE IF run.op = "selectWorkspace"
                  THEN [store EXCEPT !.workspaceId = run.activeWorkspaceId,
                                     !.workspaceSelectionRequired = FALSE,
                                     !.workouts = run.loaded.workouts,
                                     !.templates = run.loaded.templates,
                                     !.workspaceMembers = run.loaded.workspaceMembers]
             ELSE StoreAfterBootstrap(store, run)]
     /\ UNCHANGED storeVars
     /\ UNCHANGED authVars

\* catch (innerError): init empties the store but for sessionUserId,
\* signInWithTelegram empties it, the others only report the error
CatchError(c, s) ==
  LET run == Run(c, s)
      store == app[c].store
  IN /\ run.pc = "catch"
     /\ app' = [app EXCEPT
          ![c].runs[s] = IdleRun,
          ![c].store =
             IF run.op = "init"
             THEN [EmptyStore EXCEPT !.sessionUserId = store.sessionUserId]
             ELSE IF run.op = "signInWithTelegram" THEN EmptyStore
             ELSE store]
     /\ UNCHANGED storeVars
     /\ UNCHANGED authVars

\* The database after a2 made workspace 1 and an invite to it that expires
\* at the next instant; the clients are launched by the link of the invite
\* or with no start parameter
InitClients ==
  /\ workspaces = <<[id |-> 1, created_by |-> "a2", name |-> <<"G">>]>>
  /\ members = {[workspace_id |-> 1, user_id |-> "a2", role |-> "owner"]}
  /\ invites = <<[id |-> 1, workspace_id |-> 1, role |-> "coach",
                  invite_token |-> GenToken(1), created_by |-> "a2",
                  created_at |-> 0, expires_at |-> 1,
                  accepted_at |-> NullTime, accepted_by |-> NULL]>>
  /\ now = 0
  /\ pc = [a \in Accounts |-> "idle"]
  /\ frame = [a \in Accounts |-> NoFrame]
  /\ last = NoResponse
  /\ granted = {}
  /\ users = <<>>
  /\ identities = {}
  /\ secret = "s1"
  /\ login = [r \in Requests |-> IdleLogin]
  /\ app \in [Clients -> {NewClient(NullText), NewClient(GenToken(1))}]

\* init, signInWithTelegram and refreshWorkspaces in the clients of one
\* account, one store action per client at a time
NextBootstrap ==
  \/ \E c \in Clients, op \in {"init", "signInWithTelegram", "refreshWorkspaces"} :
       Start(c, 1, op, NullId)
  \/ \E c \in Clients : GetSession(c, 1)
  \/ \E c \in Clients, ok \in BOOLEAN : CreateSession(c, 1, ok)
  \/ \E c \in Clients : AcceptFromStartParam(c, 1)
  \/ \E c \in Clients, ok \in BOOLEAN : FetchWorkspaces(c, 1, ok)
  \/ \E c \in Clients, ok \in BOOLEAN : CreateDefaultWorkspace(c, 1, ok)
  \/ \E c \in Clients, ok \in BOOLEAN : LoadWorkspaceScopedData(c, 1, ok)
  \/ \E c \in Clients : SetStore(c, 1)
  \/ \E c \in Clients : CatchError(c, 1)
  \/ \E t \in 1..MaxNow : Tick(t)

SpecBootstrap == InitClients /\ [][NextBootstrap]_vars

\* The store actions of client 1, which may overlap: selectWorkspace is
\* called with the id of an entry of the list of workspaces in the store
NextStore ==
  \/ \E s \in Slots, op \in {"init", "signInWithTelegram", "signOut",
                              "refreshWorkspaces", "loadWorkspaceMembers"} :
       Start(1, s, op, NullId)
  \/ \E s \in Slots, i \in DOMAIN app[1].store.workspaces :
       Start(1, s, "selectWorkspace", app[1].store.workspaces[i])
  \/ \E s \in Slots : GetSession(1, s)
  \/ \E s \in Slots, ok \in BOOLEAN : CreateSession(1, s, ok)
  \/ \E s \in Slots : AcceptFromStartParam(1, s)
  \/ \E s \in Slots, ok \in BOOLEAN : FetchWorkspaces(1, s, ok)
  \/ \E s \in Slots, ok \in BOOLEAN : CreateDefaultWorkspace(1, s, ok)
  \/ \E s \in Slots, ok \in BOOLEAN : LoadWorkspaceScopedData(1, s, ok)
  \/ \E s \in Slots, ok \in BOOLEAN : FetchMembers(1, s, ok)
  \/ \E s \in Slots, ok \in BOOLEAN : SignOut(1, s, ok)
  \/ \E s \in Slots : SetStore(1, s)
  \/ \E s \in Slots : CatchError(1, s)

SpecStore == InitClients /\ [][NextStore]_vars

----------------------------------------------------------------------------
(* The remote procedures and the statements that the row policies admit,   *)
(* one at a time                                                           *)

NextPolicies ==
  \/ \E uid \in Accounts : CreateWorkspaceWithOwner(uid, <<"G">>)
  \/ \E uid \in Accounts, wid \in 1..MaxWorkspaces : CreateInvite(uid, wid, {2})
  \/ \E uid \in Accounts, i \in DOMAIN invites :
       AcceptInvite(uid, invites[i].invite_token)
  \/ \E uid \in Accounts, wid \in 1..MaxWorkspaces, e \in {<<"b">>, <<"c">>},
        r \in {RoleText("coach"), RoleText("member")} :
       InviteByEmail(uid, wid, e, r)
  \/ \E uid \in Accounts, wid \in 1..MaxWorkspaces, userId \in Accounts :
       RemoveWorkspaceMember(uid, wid, userId)
  \/ \E uid \in Callers, wid \in 1..MaxWorkspaces : DeleteWorkspace(uid, wid)
  \/ \E uid \in Accounts, wid \in 1..MaxWorkspaces, userId \in Accounts,
        role \in Roles :
       InsertMember(uid, wid, userId, role)
  \/ \E t \in 1..MaxNow : Tick(t)
  \/ Return

SpecPolicies == Init /\ [][NextPolicies]_vars

----------------------------------------------------------------------------
(* The invite link of the client: buildCoachInviteLink, the start          *)
(* parameter of a launch, acceptInviteFromStartParam                       *)

\* The concatenation of a sequence of texts
RECURSIVE Concat(_)
Concat(texts) ==
  IF Len(texts) = 0 THEN <<>>
  ELSE IF Len(texts) = 1 THEN texts[1]
  ELSE LET half == Len(texts) \div 2
       IN Concat(SubSeq(texts, 1, half)) \o Concat(SubSeq(texts, half + 1, Len(texts)))

\* The characters that encodeURIComponent escapes, with their escapes
Escapes ==
  [c \in {" ", "+", "%", "&", "="} |->
     CASE c = " " -> <<"%", "2", "0">>
       [] c = "+" -> <<"%", "2", "B">>
       [] c = "%" -> <<"%", "2", "5">>
       [] c = "&" -> <<"%", "2", "6">>
       [] c = "=" -> <<"%", "3", "D">>]

encodeURIComponent(text) ==
  IF \A i \in DOMAIN text : text[i] \notin DOMAIN Escapes THEN text
  ELSE Concat([i \in DOMAIN text |->
                 IF text[i] \in DOMAIN Escapes THEN Escapes[text[i]] ELSE <<text[i]>>])

\* The value of a parameter as URLSearchParams reads it: + is a space and
\* %XY is the character of code XY (for values whose % each start an escape)
decodeParam(value) ==
  LET starts == {i \in DOMAIN value : value[i] = "%" /\ i + 2 <= Len(value)}
      covered == {i + 1 : i \in starts} \cup {i + 2 : i \in starts}
      unescape(i) ==
        IF \E c \in DOMAIN Escapes : Escapes[c] = SubSeq(value, i, i + 2)
        THEN <<CHOOSE c \in DOMAIN Escapes : Escapes[c] = SubSeq(value, i, i + 2)>>
        ELSE SubSeq(value, i, i + 2)
  IN IF \A i \in DOMAIN value : value[i] \notin {"%", "+"} THEN value
     ELSE Concat([i \in DOMAIN value |->
                    IF i \in covered THEN <<>>
                    ELSE IF i \in starts THEN unescape(i)
                    ELSE IF value[i] = "+" THEN <<" ">>
                    ELSE <<value[i]>>])

inviteStartParamPrefix == <<"i", "n", "v", "i", "t", "e", "_">>

MinTokenLength == 16
MaxTokenLength == 200

\* The characters a-z, A-Z, 0-9, _ and -
TokenAlphabet ==
  {LowerLetters[i] : i \in DOMAIN LowerLetters}
    \cup {UpperLetters[i] : i \in DOMAIN UpperLetters}
    \cup {DecimalDigits[i] : i \in DOMAIN DecimalDigits}
    \cup {"_", "-"}

\* /^[a-zA-Z0-9_-]{16,200}$/.test(token)
TokenShape(token) ==
  /\ Len(token) >= MinTokenLength
  /\ Len(token) <= MaxTokenLength
  /\ \A i \in DOMAIN token : token[i] \in TokenAlphabet

startsWith(text, prefix) ==
  Len(text) >= Len(prefix) /\ SubSeq(text, 1, Len(prefix)) = prefix

\* Mutant: the token is whatever follows the prefix
extractInviteTokenUnchecked(startParam) ==
  IF startParam = NullText \/ startParam = <<>> THEN NullText
  ELSE LET normalized == Trim(startParam)
       IN IF ~startsWith(normalized, inviteStartParamPrefix) THEN NullText
          ELSE Trim(SubSeq(normalized, Len(inviteStartParamPrefix) + 1, Len(normalized)))

extractInviteTokenFromStartParam(startParam) ==
  IF startParam = NullText \/ startParam = <<>> THEN NullText
  ELSE LET normalized == Trim(startParam)
       IN IF ~startsWith(normalized, inviteStartParamPrefix) THEN NullText
          ELSE LET token == Trim(SubSeq(normalized, Len(inviteStartParamPrefix) + 1,
                                        Len(normalized)))
               IN IF ~TokenShape(token) THEN NullText ELSE token

\* env.telegramBotUsername: set or not
BotUsernames == {NullText, <<"b", "o", "t">>}

\* The link, as the address it points to, the parameter it carries and the
\* value of that parameter as the link spells it
buildCoachInviteLink(token, telegramBotUsername) ==
  LET startParam == inviteStartParamPrefix \o token
  IN IF telegramBotUsername # NullText
     THEN [to |-> "t.me", key |-> "startapp", value |-> encodeURIComponent(startParam)]
     ELSE [to |-> "origin", key |-> "tgWebAppStartParam",
           value |-> encodeURIComponent(startParam)]

\* What a launch of the app shows to the client:
\* initDataUnsafe.start_param and the parameters of window.location.  Telegram
\* hands the startapp value of a t.me link over as start_param; a link to
\* the origin is opened by the browser as it is
Launch(start_param, search) == [start_param |-> start_param, search |-> search]

OpenLink(link) ==
  IF link.to = "t.me" THEN Launch(decodeParam(link.value), <<>>)
  ELSE Launch(NullText, <<[key |-> link.key, value |-> link.value]>>)

\* getSearchParam(source, key), source being the parameters of the query
getSearchParam(source, key) ==
  LET found == SelectSeq(source, LAMBDA p : p.key = key)
  IN IF found = <<>> THEN NullText
     ELSE LET param == decodeParam(found[1].value)
          IN IF Trim(param) = <<>> THEN NullText ELSE Trim(param)

getTelegramStartParam(launch) ==
  IF launch.start_param # NullText /\ Trim(launch.start_param) # <<>>
  THEN Trim(launch.start_param)
  ELSE IF getSearchParam(launch.search, "tgWebAppStartParam") # NullText
       THEN getSearchParam(launch.search, "tgWebAppStartParam")
       ELSE getSearchParam(launch.search, "startapp")

\* A text of n characters c
Repeat(c, n) == [i \in 1..n |-> c]

\* Start parameters that no invite link carries: none, blank, a token
\* without the prefix, the prefix in upper case, tokens of 15, 16, 200 and
\* 201 characters, a token with a character outside the shape, a token
\* between spaces
OtherStartParams ==
  {NullText, <<" ">>, GenToken(1),
   <<"I", "N", "V", "I", "T", "E", "_">> \o GenToken(1),
   inviteStartParamPrefix \o Repeat("a", MinTokenLength - 1),
   inviteStartParamPrefix \o Repeat("a", MinTokenLength),
   inviteStartParamPrefix \o Repeat("Z", MaxTokenLength),
   inviteStartParamPrefix \o Repeat("a", MaxTokenLength + 1),
   inviteStartParamPrefix \o Repeat("a", MinTokenLength) \o <<"+">>,
   <<" ">> \o inviteStartParamPrefix \o <<" ">> \o GenToken(1) \o <<" ">>}

\* The launches of the app: by an invite link that was built for a token
\* of an invite row, or with another start parameter
OtherLaunches ==
  {Launch(p, <<>>) : p \in OtherStartParams}
    \cup {Launch(NullText, <<[key |-> "startapp", value |-> encodeURIComponent(p)]>>) :
            p \in OtherStartParams \ {NullText}}

Launches ==
  {OpenLink(buildCoachInviteLink(invites[i].invite_token, bot)) :
     i \in DOMAIN invites, bot \in BotUsernames}
    \cup OtherLaunches

\* acceptInviteFromStartParam of the client signed in as uid: null when the
\* launch carries no invite token, else the call of accept_workspace_invite
AcceptInviteFromStartParam(uid, launch) ==
  LET startParam == getTelegramStartParam(launch)
      inviteToken == extractInviteTokenFromStartParam(startParam)
  IN IF inviteToken = NullText
     THEN /\ last = NoResponse
          /\ last' = Response("acceptInviteFromStartParam", uid, <<startParam>>,
                              "no invite", NullId)
          /\ UNCHANGED <<workspaces, members, invites, now, pc, frame, granted>>
          /\ UNCHANGED authVars
          /\ UNCHANGED clientVars
     ELSE AcceptInvite(uid, inviteToken)

\* ttl_hours of the client's call: 24 * 7
CoachInviteTtl == {24 * 7}

NextLinks ==
  \/ \E uid \in Accounts, name \in NameInputs : CreateWorkspaceWithOwner(uid, name)
  \/ \E uid \in Accounts, wid \in WidInputs : CreateInvite(uid, wid, CoachInviteTtl)
  \/ \E uid \in Accounts :
       /\ last = NoResponse
       /\ \E launch \in Launches : AcceptInviteFromStartParam(uid, launch)
  \/ Return

SpecLinks == Init /\ [][NextLinks]_vars

----------------------------------------------------------------------------
(* Login requests that overlap, of users who name themselves, while time   *)
(* passes                                                                  *)

\* The stores after an earlier login of the last Telegram id, which made
\* its account and its identity row
InitIdentity ==
  /\ workspaces = <<>>
  /\ members = {}
  /\ invites = <<>>
  /\ now = 0
  /\ pc = [a \in Accounts |-> "idle"]
  /\ frame = [a \in Accounts |-> NoFrame]
  /\ last = NoResponse
  /\ granted = {}
  /\ users = createUser(<<>>, TRUE, deriveAuthEmail(MaxTelegramId),
                       deriveAuthPassword(MaxTelegramId, "s1")).users
  /\ identities = upsertIdentity({}, users, TRUE, MaxTelegramId, 1, NoProfile, 0).identities
  /\ secret = "s1"
  /\ login = [r \in Requests |-> IdleLogin]
  /\ app = [c \in Clients |-> NewClient(NullText)]

NextIdentity ==
  \/ \E r \in Requests, c \in TelegramIds \cup {NullId}, profile \in Profiles :
       ReceiveUser(r, c, profile)
  \/ \E r \in Requests, ok \in BOOLEAN : SelectIdentity(r, ok)
  \/ \E r \in Requests, ok \in BOOLEAN : CreateUser(r, ok)
  \/ \E r \in Requests, ok \in BOOLEAN : UpsertIdentity(r, ok)
  \/ \E r \in Requests, ok \in BOOLEAN : UpdateUser(r, ok)
  \/ \E r \in Requests, ok \in BOOLEAN : SignIn(r, ok)
  \/ Advance

SpecIdentity == InitIdentity /\ [][NextIdentity]_vars

----------------------------------------------------------------------------
(* Login requests whose initData verifyInitData reads, one at a time       *)

NextCredential ==
  \/ \E r \in Requests, fields \in SentFields : Login(r, fields, "t1", NoValue)
  \/ \E r \in Requests, ok \in BOOLEAN : SelectIdentity(r, ok)
  \/ \E r \in Requests, ok \in BOOLEAN : CreateUser(r, ok)
  \/ \E r \in Requests, ok \in BOOLEAN : UpsertIdentity(r, ok)
  \/ \E r \in Requests, ok \in BOOLEAN : UpdateUser(r, ok)
  \/ \E r \in Requests, ok \in BOOLEAN : SignIn(r, ok)

SpecCredential == Init /\ [][NextCredential]_vars

----------------------------------------------------------------------------
(* HTTP requests to the login function, served one at a time               *)

NextEndpoint ==
  \/ \E r \in Requests, method \in Methods, missing \in MissingEnv, body \in Bodies :
       Serve(r, HttpRequest(method, missing, body))
  \/ \E r \in Requests, ok \in BOOLEAN : SelectIdentity(r, ok)
  \/ \E r \in Requests, ok \in BOOLEAN : CreateUser(r, ok)
  \/ \E r \in Requests, ok \in BOOLEAN : UpsertIdentity(r, ok)
  \/ \E r \in Requests, ok \in BOOLEAN : UpdateUser(r, ok)
  \/ \E r \in Requests, ok \in BOOLEAN : SignIn(r, ok)

SpecEndpoint == Init /\ [][NextEndpoint]_vars

----------------------------------------------------------------------------
(* Requests that run one at a time *)

Next ==
  \/ \E uid \in Callers, name \in NameInputs : CreateWorkspaceWithOwner(uid, name)
  \/ \E uid \in Callers, wid \in WidInputs, ttl \in TtlInputs : CreateInvite(uid, wid, ttl)
  \/ \E uid \in Callers, tok \in TokenInputs : AcceptInvite(uid, tok)
  \/ \E uid \in Callers, wid \in WidInputs, e \in EmailInputs, r \in RoleInputs :
       InviteByEmail(uid, wid, e, r)
  \/ \E uid \in Callers, wid \in WidInputs, userId \in Accounts :
       RemoveWorkspaceMember(uid, wid, userId)
  \/ \E t \in 1..MaxNow : Tick(t)
  \/ Return

Spec == Init /\ [][Next]_vars

(* accept_workspace_invite calls of different accounts that overlap *)

NextConc ==
  \/ \E uid \in Callers, name \in NameInputs : CreateWorkspaceWithOwner(uid, name)
  \/ \E uid \in Callers, wid \in WidInputs, ttl \in TtlInputs : CreateInvite(uid, wid, ttl)
  \/ \E uid \in Callers, tok \in TokenInputs : AcceptBegin(uid, tok)
  \/ \E uid \in Accounts : AcceptUpsert(uid)
  \/ \E uid \in Accounts : AcceptUpdate(uid)
  \/ \E t \in 1..MaxNow : Tick(t)
  \/ Return

SpecConc == Init /\ [][NextConc]_vars

(* The expiry arithmetic of create_workspace_invite_for_coach, over a wider  *)
(* range of ttl_hours                                                       *)

NextTtl ==
  \/ \E uid \in Accounts : CreateWorkspaceWithOwner(uid, <<"G">>)
  \/ \E uid \in Callers, wid \in 1..MaxWorkspaces, ttl \in TtlRange :
       CreateInvite(uid, wid, ttl)
  \/ \E t \in 1..MaxNow : Tick(t)
  \/ Return

SpecTtl == Init /\ [][NextTtl]_vars

(* Two workspaces, created by a1 and by a2, and the calls on their members *)

InitMembers ==
  /\ workspaces = <<[id |-> 1, created_by |-> "a1", name |-> <<"G">>],
                    [id |-> 2, created_by |-> "a2", name |-> <<"H">>]>>
  /\ members = {[workspace_id |-> 1, user_id |-> "a1", role |-> "owner"],
                [workspace_id |-> 2, user_id |-> "a2", role |-> "owner"]}
  /\ invites = <<>>
  /\ now = 0
  /\ pc = [a \in Accounts |-> "idle"]
  /\ frame = [a \in Accounts |-> NoFrame]
  /\ last = NoResponse
  /\ granted = {}
  /\ users = <<>>
  /\ identities = {}
  /\ secret = "s1"
  /\ login = [r \in Requests |-> IdleLogin]
  /\ app = [c \in Clients |-> NewClient(NullText)]

\* member_email and member_role that add an account to a workspace
EmailsOfAccounts == {<<" ", "A">>, <<"b">>, <<"C", " ">>}
RolesOfMembers == {RoleText("coach"), <<" ", "M", "e", "m", "b", "e", "r">>}

NextMembers ==
  \/ \E uid \in Callers, wid \in {NullId} \cup DOMAIN workspaces,
        e \in EmailsOfAccounts, r \in RolesOfMembers : InviteByEmail(uid, wid, e, r)
  \/ \E uid \in Callers, wid \in {NullId} \cup DOMAIN workspaces, userId \in Accounts :
       RemoveWorkspaceMember(uid, wid, userId)
  \/ \E uid \in Callers, wid \in {NullId} \cup DOMAIN workspaces : ListMembers(uid, wid)
  \/ Return

SpecMembers == InitMembers /\ [][NextMembers]_vars

(* One workspace: its creation and the direct invites of its owner, over a   *)
(* wider range of names, emails and roles                                   *)

\* name, member_email and member_role, with the absent and the empty ones
NameRange == NameInputs \cup {NullText, <<>>, <<"G">>}
EmailRange == EmailInputs \cup {NullText, <<>>}
RoleRange == RoleInputs \cup {NullText, <<>>, <<"x">>}

NextWorkspaces ==
  \/ \E uid \in Callers, name \in NameRange : CreateWorkspaceWithOwner(uid, name)
  \/ \E uid \in Callers, wid \in WidInputs, e \in EmailRange, r \in RoleRange :
       InviteByEmail(uid, wid, e, r)
  \/ \E uid \in Callers, wid \in WidInputs, userId \in Accounts :
       RemoveWorkspaceMember(uid, wid, userId)
  \/ \E uid \in Callers, wid \in WidInputs : ListMembers(uid, wid)
  \/ Return

SpecWorkspaces == Init /\ [][NextWorkspaces]_vars

(* The order of the member list, for every set of joined rows *)

\* coalesce(u.email, ''): no email, two that differ in case only, another
ListLabels == {<<>>, <<"a">>, <<"A">>, <<"b">>}

\* The joined rows of one workspace: at most MaxListed accounts, one row each
ListRows ==
  LET all == UNION {[U -> [role : Roles, email : ListLabels,
                           created_at : 0..MaxNow]] :
                      U \in {V \in SUBSET Accounts : Cardinality(V) <= MaxListed}}
  IN {f \in all :
        /\ Cardinality({a \in DOMAIN f : f[a].role = "owner"}) <= 1
        /\ \A a \in DOMAIN f, b \in DOMAIN f :
             (a # b /\ f[a].email = f[b].email) => f[a].email = <<>>}

RowSet(f) ==
  {[user_id |-> a, email |-> f[a].email, role |-> f[a].role,
    created_at |-> f[a].created_at] : a \in DOMAIN f}

NextList ==
  \/ \E f \in ListRows, collation \in Collations : ReturnQuery(RowSet(f), collation)
  \/ \E f \in ListRows, collation \in Collations :
       FetchWorkspaceMembers(RowSet(f), collation)
  \/ Return

SpecList == Init /\ [][NextList]_vars

(* Runs of verifyInitData, deriveAuthPassword and constantTimeEqual *)

NextVerify ==
  \/ \E fields \in FieldSets, botToken \in BotTokens, env \in MaxAgeValues :
       VerifyInitData(fields, botToken, env)
  \/ \E telegramUserId \in TelegramIds, s \in Secrets :
       DeriveAuthPassword(telegramUserId, s)
  \/ \E left \in CompareTexts, right \in CompareTexts :
       ConstantTimeEqual(left, right)
  \/ Return

SpecVerify == Init /\ [][NextVerify]_vars

(* Login requests that are served one at a time *)

NextLogin ==
  \/ \E r \in Requests, c \in TelegramIds \cup {NullId} : ReceiveInTurn(r, c)
  \/ \E r \in Requests, ok \in BOOLEAN : SelectIdentity(r, ok)
  \/ \E r \in Requests, ok \in BOOLEAN : CreateUser(r, ok)
  \/ \E r \in Requests, ok \in BOOLEAN : UpsertIdentity(r, ok)
  \/ \E r \in Requests, ok \in BOOLEAN : UpdateUser(r, ok)
  \/ \E r \in Requests, ok \in BOOLEAN : SignIn(r, ok)
  \/ \E s \in Secrets : RotateSecret(s)

SpecLogin == Init /\ [][NextLogin]_vars

(* Login requests that overlap: between two awaited calls of one request   *)
(* any other request may run; a request may also never take its next step  *)

NextLoginConc ==
  \/ \E r \in Requests, c \in TelegramIds \cup {NullId} : Receive(r, c)
  \/ \E r \in Requests, ok \in BOOLEAN : SelectIdentity(r, ok)
  \/ \E r \in Requests, ok \in BOOLEAN : CreateUser(r, ok)
  \/ \E r \in Requests, ok \in BOOLEAN : UpsertIdentity(r, ok)
  \/ \E r \in Requests, ok \in BOOLEAN : UpdateUser(r, ok)
  \/ \E r \in Requests, ok \in BOOLEAN : SignIn(r, ok)
  \/ \E s \in Secrets : RotateSecret(s)

SpecLoginConc == Init /\ [][NextLoginConc]_vars

(* The same, when every step that can be taken is taken in the end *)

SpecLoginFair == SpecLoginConc /\ WF_vars(NextLoginConc)

----------------------------------------------------------------------------
(* Vocabulary of the properties *)

Rank(r) == CASE r = "owner" -> 3 [] r = "coach" -> 2 [] r = "member" -> 1 [] OTHER -> 0

\* The invite row a response to acceptInvite is about (NoRow: none)
RowOf(invs, resp) == FindInvite(invs, Trim(CoalesceText(resp.args[1], <<>>)))

\* The state holds the response to an acceptInvite call of an account on a known token
AcceptAnswered ==
  /\ last.op = "acceptInvite"
  /\ last.caller # NULL
  /\ RowOf(invites, last).id # NullId

\* The step is an acceptInvite call of an account on a known token
AcceptCall ==
  /\ last = NoResponse
  /\ last'.op = "acceptInvite"
  /\ last'.caller # NULL
  /\ RowOf(invites, last').id # NullId

\* ... by the account that had accepted that invite before
RepeatAcceptCall ==
  /\ AcceptCall
  /\ RowOf(invites, last').accepted_by = last'.caller

----------------------------------------------------------------------------
(* C1: a successful acceptInvite leaves an owner or coach membership of    *)
(* every account unchanged; the only membership it writes is the caller's  *)
(* in the invite's workspace, absent or 'member' before and the invite's   *)
(* role after; no role moves downward in owner > coach > member.           *)

C1_RoleRatchet ==
  [][(AcceptCall /\ last'.result = "ok") =>
      \A w \in 1..MaxWorkspaces, a \in Accounts :
        LET old == RoleOf(members, w, a)
            new == RoleOf(members', w, a)
        IN /\ old \in {"owner", "coach"} => new = old
           /\ Rank(new) >= Rank(old)
           /\ new # old =>
                /\ old \in {NULL, "member"}
                /\ a = last'.caller
                /\ w = RowOf(invites, last').workspace_id
                /\ new = RowOf(invites, last').role]_vars

\* An owner has accepted a coach invite of the workspace and is still owner
C1_Witness ==
  /\ AcceptAnswered
  /\ last.result = "ok"
  /\ RowOf(invites, last).role = "coach"
  /\ RoleOf(members, last.value, last.caller) = "owner"

----------------------------------------------------------------------------
(* C2: for overlapping acceptInvite calls of distinct accounts on one      *)
(* token, at most one account gains or upgrades a membership through it.   *)

C2_SingleUse ==
  (\A a \in Accounts : pc[a] = "idle") =>
    \A i \in DOMAIN invites :
      Cardinality({a \in Accounts : <<i, a>> \in granted}) <= 1

----------------------------------------------------------------------------
(* C3 as claimed: after an invite was accepted by account A, an            *)
(* acceptInvite call on its token by another account B fails with          *)
(* AlreadyAccepted, whatever the time of the call.                         *)

AcceptedByOther ==
  /\ AcceptAnswered
  /\ RowOf(invites, last).accepted_by \notin {NULL, last.caller}

C3_Original ==
  AcceptedByOther => last.result = "Invite already accepted"

(* C3 as amended: such a call always fails, with AlreadyAccepted when made *)
(* before expires_at and with Expired when made at or after expires_at.    *)

C3_AlreadyAccepted ==
  AcceptedByOther =>
    last.result = IF RowOf(invites, last).expires_at <= now
                  THEN "Invite expired"
                  ELSE "Invite already accepted"

C3_Witness ==
  /\ AcceptedByOther
  /\ last.result = "Invite already accepted"

----------------------------------------------------------------------------
(* C4 as claimed: a second acceptInvite of the accepting account on the    *)
(* same token succeeds, returns the invite's workspace, and there is       *)
(* exactly one membership row for (workspace, account).                    *)

RepeatSucceeds ==
  LET row == RowOf(invites, last')
  IN /\ last'.result = "ok"
     /\ last'.value = row.workspace_id
     /\ Cardinality(MemberRows(members', row.workspace_id, last'.caller)) = 1

C4_Original == [][RepeatAcceptCall => RepeatSucceeds]_vars

(* C4 as amended: the same, for a second call made before expires_at.      *)

C4_Idempotent ==
  [][(RepeatAcceptCall /\ now < RowOf(invites, last').expires_at) => RepeatSucceeds]_vars

\* The accepting account has called again, later, and succeeded
C4_Witness ==
  /\ AcceptAnswered
  /\ last.result = "ok"
  /\ RowOf(invites, last).accepted_by = last.caller
  /\ RowOf(invites, last).accepted_at < now
  /\ Cardinality(MemberRows(members, last.value, last.caller)) = 1

----------------------------------------------------------------------------
(* C5: a repeat acceptInvite of the accepting account changes no           *)
(* Membership row and no Invite row.                                       *)

C5_RepeatIsNoOp ==
  [][RepeatAcceptCall => (members' = members /\ invites' = invites)]_vars

----------------------------------------------------------------------------
(* C6: no invite row is deleted; once accepted_at and accepted_by are set  *)
(* they never change; and an acceptInvite call made after expires_at of an *)
(* unaccepted invite writes neither the invite nor any membership.         *)

----------------------------------------------------------------------------
(* C7 as claimed: acceptInvite of an account on a known token fails with   *)
(* Expired exactly when now > expires_at.                                  *)

C7_Original ==
  AcceptAnswered =>
    ((last.result = "Invite expired") <=> (now > RowOf(invites, last).expires_at))

(* C7 as amended: ... exactly when now >= expires_at; a call made at the   *)
(* instant now = expires_at is rejected as expired.                        *)

C7_ExpiryBoundary ==
  AcceptAnswered =>
    ((last.result = "Invite expired") <=> (now >= RowOf(invites, last).expires_at))

\* A call at the instant of expiry, on a pending invite
C7_Witness ==
  /\ AcceptAnswered
  /\ RowOf(invites, last).accepted_at = NullTime
  /\ now = RowOf(invites, last).expires_at
  /\ last.result = "Invite expired"

----------------------------------------------------------------------------
(* C8: the account that created a workspace holds a membership with        *)
(* role = owner in it, in every reachable state.                           *)

C8_CreatorIsOwner ==
  \A w \in DOMAIN workspaces :
    RoleOf(members, w, workspaces[w].created_by) = "owner"

----------------------------------------------------------------------------
(* C9: createInvite succeeds exactly for a caller who holds role = owner   *)
(* on the workspace at the call; any other call fails and adds no invite;  *)
(* a successful call adds exactly one pending invite of that workspace     *)
(* with role 'coach' and created_by = the caller.                          *)

C9_CreateInvite ==
  [][(last = NoResponse /\ last'.op = "createInvite") =>
      LET wid == last'.args[1]
          isOwner == last'.caller # NULL /\ RoleOf(members, wid, last'.caller) = "owner"
          n == Len(invites)
      IN /\ (last'.result = "ok") <=> isOwner
         /\ ~isOwner => invites' = invites
         /\ isOwner =>
              /\ Len(invites') = n + 1
              /\ SubSeq(invites', 1, n) = invites
              /\ invites'[n + 1].workspace_id = wid
              /\ invites'[n + 1].role = "coach"
              /\ invites'[n + 1].created_by = last'.caller
              /\ invites'[n + 1].accepted_at = NullTime
              /\ invites'[n + 1].accepted_by = NULL
              /\ invites'[n + 1].invite_token = last'.value]_vars

\* A coach of the workspace has asked for an invite and was refused
C9_Witness ==
  /\ last.op = "createInvite"
  /\ last.caller # NULL
  /\ RoleOf(members, last.args[1], last.caller) = "coach"
  /\ last.result = "Only workspace owner can create coach invite"

----------------------------------------------------------------------------
(* C10: the invite created by createInvite(ttlHours) expires exactly       *)
(* max(1, min(ttlHours, 720)) hours after its creation, with 168 hours     *)
(* when ttlHours is absent.                                                *)

ExpectedTtl(ttl_hours) ==
  IF ttl_hours = {} THEN 168
  ELSE LET n == CHOOSE k \in ttl_hours : TRUE
       IN IF n < 1 THEN 1 ELSE IF n > 720 THEN 720 ELSE n

C10_TtlClamp ==
  (last.op = "createInvite" /\ last.result = "ok") =>
    LET row == FindInvite(invites, last.value)
    IN /\ row.id # NullId
       /\ row.created_at = now
       /\ row.expires_at = row.created_at + ExpectedTtl(last.args[2])

\* An invite was created with ttlHours above 720
C10_Witness ==
  /\ last.op = "createInvite"
  /\ last.result = "ok"
  /\ last.args[2] = {MaxTtlHours + 1}
  /\ FindInvite(invites, last.value).expires_at = now + 720

----------------------------------------------------------------------------
(* Direct invites, the member list and the creation of workspaces *)

\* The caller of a request holds the owner row of its workspace
CallerOwns(resp) ==
  /\ resp.caller # NULL
  /\ [workspace_id |-> resp.args[1], user_id |-> resp.caller, role |-> "owner"]
       \in members

\* The accounts whose email is e, whatever the case and the spaces around e
AccountsNamed(e) ==
  IF e = NullText THEN {}
  ELSE {a \in Accounts : Lower(EmailOf[a]) = Lower(Trim(e))}

\* The role a text names, once trimmed and lower-cased; NULL when it names
\* neither coach nor member
InvitableRole(t) ==
  IF t = NullText THEN NULL
  ELSE IF Lower(Trim(t)) = RoleText("coach") THEN "coach"
  ELSE IF Lower(Trim(t)) = RoleText("member") THEN "member"
  ELSE NULL

\* C11: inviteByEmail succeeds exactly when the caller is an owner of the
\* workspace, the role (trimmed, lower-cased) is coach or member and an
\* account has the normalized email; in every other case it answers an error
\* and no row of workspace_members changes.
C11_InviteByEmailGuards ==
  [][last'.op = "inviteByEmail" =>
       IF /\ CallerOwns(last')
          /\ InvitableRole(last'.args[3]) # NULL
          /\ AccountsNamed(last'.args[2]) # {}
       THEN last'.result = "ok"
       ELSE last'.result # "ok" /\ members' = members]_vars

\* The owner of a workspace of three was refused for the role "owner"
C11_Witness ==
  /\ last.op = "inviteByEmail"
  /\ last.result = "invalid member role"
  /\ CallerOwns(last)
  /\ last.args[3] = RoleText("owner")
  /\ Cardinality(members) = 3

\* C12: a successful inviteByEmail leaves the target with exactly the role of
\* the call, whatever role it had (a coach becomes member), and changes no
\* other row; acceptInvite is the one that never lowers a role (C1).
C12_RoleVerbatim ==
  [][(last'.op = "inviteByEmail" /\ last'.result = "ok") =>
       LET wid == last'.args[1]
           target == last'.value
       IN /\ target \in AccountsNamed(last'.args[2])
          /\ RoleOf(members', wid, target) = InvitableRole(last'.args[3])
          /\ Cardinality(MemberRows(members', wid, target)) = 1
          /\ {m \in members' : ~(m.workspace_id = wid /\ m.user_id = target)}
               = {m \in members : ~(m.workspace_id = wid /\ m.user_id = target)}]_vars

\* The owner has made the coach a2 a member
C12_Witness ==
  /\ last.op = "inviteByEmail"
  /\ last.result = "ok"
  /\ last.value = "a2"
  /\ InvitableRole(last.args[3]) = "member"
  /\ RoleOf(members, last.args[1], "a2") = "member"
  /\ RoleOf(members, last.args[1], "a3") = "coach"

\* The membership rows of workspace wid
RowsOfWorkspace(wid) == {m \in members : m.workspace_id = wid}

\* C13: listMembers(wid) succeeds exactly for a signed-in caller that holds a
\* membership of any role in wid, and then returns one entry for each
\* membership row of wid and nothing else; for every other caller it fails
\* and returns no entry.  It changes no row.
C13_ListMembers ==
  [][last'.op = "listMembers" =>
       LET wid == last'.args[1]
           list == last'.value
       IN /\ last'.result = "ok" <=>
               (last'.caller # NULL /\ \E m \in RowsOfWorkspace(wid) :
                                          m.user_id = last'.caller)
          /\ last'.result = "ok" =>
               /\ Len(list) = Cardinality(RowsOfWorkspace(wid))
               /\ \A m \in RowsOfWorkspace(wid) :
                    \E i \in DOMAIN list : /\ list[i].user_id = m.user_id
                                           /\ list[i].role = m.role
               /\ \A i \in DOMAIN list :
                    \E m \in RowsOfWorkspace(wid) : /\ list[i].user_id = m.user_id
                                                    /\ list[i].role = m.role
                                                    /\ list[i].email = EmailOf[m.user_id]
          /\ last'.result # "ok" => list = <<>>
          /\ members' = members]_vars

\* A member that is no owner has listed a workspace of two, while the other
\* workspace holds an account that is not in the list
C13_Witness ==
  /\ last.op = "listMembers"
  /\ last.result = "ok"
  /\ RoleOf(members, last.args[1], last.caller) = "member"
  /\ Len(last.value) = 2
  /\ \E m \in members :
       /\ m.workspace_id # last.args[1]
       /\ \A i \in DOMAIN last.value : last.value[i].user_id # m.user_id

\* x comes no later than y by role rank (owner = 1, coach = 2, member = 3,
\* anything else = 9), then by label without regard to case, then by join time
InListOrder(x, y) ==
  LET rank(r) == CASE r = "owner" -> 1 [] r = "coach" -> 2 [] r = "member" -> 3
                   [] OTHER -> 9
      byLabel == localeCompare(Lower(x.email), Lower(y.email))
  IN \/ rank(x.role) < rank(y.role)
     \/ /\ rank(x.role) = rank(y.role)
        /\ \/ byLabel < 0
           \/ byLabel = 0 /\ x.created_at <= y.created_at

\* C14: the list of members, as the database returns it and as the client
\* store keeps it, is ordered by role rank, then by label compared without
\* regard to case, then by join time.
C14_ListOrder ==
  last.op \in {"list_workspace_members", "fetchWorkspaceMembers"} =>
    \A i \in DOMAIN last.value, j \in DOMAIN last.value :
      i < j => InListOrder(last.value[i], last.value[j])

----------------------------------------------------------------------------
(* Login *)

Answered(r) == login[r].pc = "done"

Succeeded(r) == Answered(r) /\ login[r].response.status = 200

\* The accounts and the identity rows of an external id
AccountsOf(t) == {i \in DOMAIN users : users[i].email = deriveAuthEmail(t)}
IdentityRowsOf(t) == {row \in identities : row.telegram_user_id = t}

\* The external id of the request had neither row nor account on arrival
Fresh(r) ==
  login[r].before.user_id = NullId /\ login[r].before.account = NullId

\* r1 was answered before r2 arrived, both with success, for one external
\* id that was new to the stores when r1 arrived
LoggedInTwice(r1, r2) ==
  /\ r1 < r2
  /\ Succeeded(r1)
  /\ Succeeded(r2)
  /\ login[r1].telegramUser = login[r2].telegramUser
  /\ Fresh(r1)

\* C16: of two successful logins for one external id that run one after the
\* other, the first for an id not seen before, the first answers isNewUser =
\* true and the second isNewUser = false, both with the same userId; after
\* them there is one account and one identity row for that id.
C16_LoginTwice ==
  \A r1 \in Requests, r2 \in Requests :
    LoggedInTwice(r1, r2) =>
      LET t == login[r1].telegramUser
          first == login[r1].response.body
          second == login[r2].response.body
      IN /\ first.isNewUser = TRUE
         /\ second.isNewUser = FALSE
         /\ first.userId = second.userId
         /\ AccountsOf(t) = {first.userId}
         /\ {row.user_id : row \in IdentityRowsOf(t)} = {first.userId}
         /\ Cardinality(IdentityRowsOf(t)) = 1

C16_Witness == \E r1 \in Requests, r2 \in Requests : LoggedInTwice(r1, r2)

StepsPassed(r) == {login[r].trail[i][1] :
                     i \in {k \in DOMAIN login[r].trail : login[r].trail[k][2] = "ok"}}

\* C18: a response carries accessToken and refreshToken only with status 200
\* and only when verification, identity upsert, password re-set and sign-in
\* of that request all succeeded; when a call fails the response is {error}
\* alone, with no token, and the failed call is the last the request made.
C18_FailsClosed ==
  \A r \in Requests :
    LET f == login[r]
        n == Len(f.trail)
    IN IF Answered(r)
       THEN IF \A i \in 1..n : f.trail[i][2] = "ok"
            THEN /\ f.response.status = 200
                 /\ {"verifyInitData", "upsert", "updateUserById",
                     "signInWithPassword"} \subseteq StepsPassed(r)
                 /\ f.response.body.accessToken # NullText
                 /\ f.response.body.refreshToken # NullText
            ELSE /\ f.response.status # 200
                 /\ DOMAIN f.response.body = {"error"}
                 /\ \A i \in 1..(n - 1) : f.trail[i][2] = "ok"
       ELSE f.response = NoLoginResponse

\* A request failed at the password re-set, after its identity row was written
C18_Witness ==
  \E r \in Requests :
    /\ Answered(r)
    /\ login[r].response.status = 400
    /\ login[r].trail[Len(login[r].trail)] = <<"updateUserById", "unavailable">>
    /\ IdentityRowsOf(login[r].telegramUser) # {}

\* The request arrived for an id whose account was bound, with a password
\* that is not the one the request derives: the secret has changed since
Stale(f) ==
  /\ f.before.user_id # NullId
  /\ f.before.account = f.before.user_id
  /\ f.before.password # f.password

\* Every call of the request was served
Served(f) == \A i \in DOMAIN f.trail : f.trail[i][2] # "unavailable"

\* C19: a login for an id bound under an old secret, whose calls are all
\* served, succeeds with the userId bound before and isNewUser = false, and
\* leaves the account with the password derived from the new secret.
C19_RotationHeals ==
  [][\A r \in Requests :
       (~Answered(r) /\ login'[r].pc = "done"
          /\ Stale(login'[r]) /\ Served(login'[r])) =>
         LET f == login'[r]
         IN /\ f.response.status = 200
            /\ f.response.body.userId = f.before.user_id
            /\ f.response.body.isNewUser = FALSE
            /\ users'[f.before.user_id].password = f.password
            /\ \E s \in Secrets \ {f.before.password.digest.key} :
                 f.password = deriveAuthPassword(f.telegramUser, s)]_vars

\* An identity row whose account does not exist
OrphanIdentity == \E row \in identities : row.user_id \notin DOMAIN users

\* An account of the external id, and no identity row for it
OrphanAccount(t) == AccountsOf(t) # {} /\ IdentityRowsOf(t) = {}

\* The request created the account and has not written the identity row:
\* it is before the upsert, or the upsert failed
StoppedBeforeUpsert(r) ==
  /\ login[r].isNewUser
  /\ \/ login[r].pc = "upsert"
     \/ /\ login[r].pc = "done"
        /\ login[r].trail[Len(login[r].trail)][1] = "upsert"

----------------------------------------------------------------------------
(* Claims on verifyInitData, constantTimeEqual and deriveAuthPassword       *)

\* A run of verifyInitData has answered
Verifying == last.op = "verifyInitData"

\* The hash of the initData is a text whose lower case is text
HashIs(params, text) ==
  /\ get(params, HashKey).kind = "text"
  /\ toLowerCase(get(params, HashKey).text) = text

\* The key=value lines of the fields besides hash, by key in byte order:
\* auth_date, query_id, user
CanonicalMessage(params) ==
  LET lines(key) ==
        LET es == SelectSeq(params, LAMBDA e : e.key = key)
        IN [i \in DOMAIN es |-> <<key, "=", es[i].value>>]
  IN lines(AuthDateKey) \o lines(QueryIdKey) \o lines(UserKey)

\* hex(HMAC(key = HMAC(key = "WebAppData", message = shared secret),
\*          message = canonical message))
HashKeyedByConstant(params, sharedSecret) ==
  bytesToHex(SignatureBytes(
    hmacSha256(hmacSha256("WebAppData", sharedSecret), CanonicalMessage(params))))

\* hex(HMAC(key = HMAC(key = shared secret, message = "WebAppData"),
\*          message = canonical message))
HashKeyedBySecret(params, sharedSecret) ==
  bytesToHex(SignatureBytes(
    hmacSha256(hmacSha256(sharedSecret, "WebAppData"), CanonicalMessage(params))))

\* The initData carries the hash that is expected of it
CorrectlySigned(params, sharedSecret) ==
  HashIs(params, HashKeyedByConstant(params, sharedSecret))

\* The timestamp of the initData, when it is the text of an integer
HasTimestamp(params) == get(params, AuthDateKey).kind = "digits"
Timestamp(params) == get(params, AuthDateKey).n

\* The configured maximum age: 3600 when none is configured
HasMaxAge(env) == env.kind \in {"null", "digits"}
MaxAge(env) == IF env.kind = "null" THEN 3600 ELSE env.n

InWindow(params, env) ==
  /\ HasTimestamp(params)
  /\ HasMaxAge(env)
  /\ Timestamp(params) <= NowSeconds + 30
  /\ NowSeconds - Timestamp(params) <= MaxAge(env)

\* C21: verifyInitData accepts every initData that carries the expected hash
\* and a timestamp inside the window, and returns the numeric id of its user
\* field as it is.
C21_VerifyAccepts ==
  (/\ Verifying
   /\ CorrectlySigned(last.args[1], last.args[2])
   /\ InWindow(last.args[1], last.args[3])
   /\ get(last.args[1], UserKey).kind = "json-id-number") =>
    /\ last.result = "ok"
    /\ last.value = get(last.args[1], UserKey).n

\* An initData of three fields sent in the order user, query_id, auth_date,
\* with its hash in upper case, is accepted for user 2
C21_Witness ==
  /\ Verifying
  /\ last.result = "ok"
  /\ last.value = 2
  /\ Len(last.args[1]) = 4
  /\ last.args[1][1].key = UserKey
  /\ get(last.args[1], HashKey).text # toLowerCase(get(last.args[1], HashKey).text)

\* C22: constantTimeEqual answers as the equality of its two texts; an
\* initData is accepted only if the lower case of its hash is the expected
\* hash, and one that passes the checks of the timestamp with another hash
\* is rejected for its signature.
C22_NoFalseAccept ==
  /\ last.op = "constantTimeEqual" =>
       (last.result = "equal" <=> last.args[1] = last.args[2])
  /\ (Verifying /\ last.result = "ok") =>
       CorrectlySigned(last.args[1], last.args[2])
  /\ (/\ Verifying
      /\ get(last.args[1], HashKey).kind = "text"
      /\ InWindow(last.args[1], last.args[3])
      /\ ~CorrectlySigned(last.args[1], last.args[2])) =>
       last.result = "bad signature"

\* A hash of the expected length that differs from the expected hash in one
\* character is rejected
C22_Witness ==
  /\ Verifying
  /\ last.result = "bad signature"
  /\ LET hash == get(last.args[1], HashKey).text
         expected == HashKeyedByConstant(last.args[1], last.args[2])
     IN /\ Len(hash) = Len(expected)
        /\ Cardinality({i \in DOMAIN hash : hash[i] # expected[i]}) = 1

\* C23: a correctly signed initData with timestamp t passes the future check
\* for t <= now + 30 and fails it for t >= now + 31.
C23_FutureBoundary ==
  (/\ Verifying
   /\ CorrectlySigned(last.args[1], last.args[2])
   /\ HasTimestamp(last.args[1])) =>
    (last.result = "auth_date in the future"
       <=> Timestamp(last.args[1]) >= NowSeconds + 31)

\* A correctly signed initData of timestamp now + 30 is accepted
C23_Witness ==
  /\ Verifying
  /\ last.result = "ok"
  /\ Timestamp(last.args[1]) = NowSeconds + 30

\* C24: a correctly signed initData whose age is the maximum age passes, and
\* one that is a second older fails as expired, for the configured maximum
\* age and for 3600 when none is configured.
C24_ExpiryBoundary ==
  (/\ Verifying
   /\ CorrectlySigned(last.args[1], last.args[2])
   /\ HasTimestamp(last.args[1])
   /\ HasMaxAge(last.args[3])) =>
    LET age == NowSeconds - Timestamp(last.args[1])
    IN /\ age = MaxAge(last.args[3]) =>
            /\ last.result # "initData expired"
            /\ get(last.args[1], UserKey).kind = "json-id-number" =>
                 last.result = "ok"
       /\ age = MaxAge(last.args[3]) + 1 => last.result = "initData expired"

\* With no maximum age configured, an initData that is 3600 seconds old is
\* accepted
C24_Witness ==
  /\ Verifying
  /\ last.args[3] = NoValue
  /\ NowSeconds - Timestamp(last.args[1]) = 3600
  /\ last.result = "ok"

\* C25 as stated: the hash that is accepted is the one whose first HMAC has
\* the shared secret as its key and "WebAppData" as its message.
C25_Original ==
  (/\ Verifying
   /\ get(last.args[1], HashKey).kind = "text"
   /\ InWindow(last.args[1], last.args[3])) =>
    (last.result # "bad signature"
       <=> HashIs(last.args[1], HashKeyedBySecret(last.args[1], last.args[2])))

\* C25, amended: the hash that is accepted is the one whose first HMAC has
\* "WebAppData" as its key and the shared secret as its message, and whose
\* second HMAC is keyed by the first over the key=value lines of the fields
\* besides hash, sorted by key.
C25_ExpectedHash ==
  (/\ Verifying
   /\ get(last.args[1], HashKey).kind = "text"
   /\ InWindow(last.args[1], last.args[3])) =>
    (last.result # "bad signature"
       <=> HashIs(last.args[1], HashKeyedByConstant(last.args[1], last.args[2])))

\* A hash computed with the shared secret as the key of the first HMAC is
\* rejected, on fields that were sent out of order
C25_Witness ==
  /\ Verifying
  /\ last.result = "bad signature"
  /\ HashIs(last.args[1], HashKeyedBySecret(last.args[1], last.args[2]))
  /\ Len(last.args[1]) = 4
  /\ last.args[1][1].key = UserKey

IsLowerCase(c) == LetterIndex(c) > 0 /\ ~IsUpper(c)
IsSymbol(c) == LetterIndex(c) = 0 /\ ~IsDigit(c)

AnsweredRequests ==
  {r \in Requests : Answered(r) /\ login[r].request # NoRequest}

\* The body of a successful login
FullBody(body) ==
  /\ DOMAIN body = {"accessToken", "refreshToken", "userId", "isNewUser"}
  /\ body.accessToken # NullText
  /\ body.refreshToken # NullText
  /\ body.userId # NullId

\* C26: OPTIONS is answered successfully whatever the configuration; another
\* method than POST gets 405 whatever the configuration; a POST with a
\* required variable missing gets 500; every other POST that fails gets 400;
\* and a POST gets 200 only with the full body of a login.
C26_StatusOrder ==
  \A r \in AnsweredRequests :
    LET request == login[r].request
        response == login[r].response
    IN /\ request.method = "OPTIONS" => response.status = 200
       /\ request.method \notin {"OPTIONS", "POST"} => response.status = 405
       /\ (request.method = "POST" /\ request.missing # {}) => response.status = 500
       /\ (request.method = "POST" /\ request.missing = {}) =>
            \/ response.status = 400
            \/ response.status = 200 /\ FullBody(response.body)

\* Request r was for a verified id and was answered with an error
Aborted(r) ==
  /\ Answered(r)
  /\ login[r].telegramUser # NullId
  /\ login[r].response.status = 400

\* C30: after a login for an id was aborted at any of its steps, a later
\* login for the id with a valid credential, all of whose calls are served,
\* succeeds.
C30_Recoverable ==
  \A r \in Requests, later \in Requests :
    (/\ r < later
     /\ Aborted(r)
     /\ Answered(later)
     /\ login[later].telegramUser = login[r].telegramUser
     /\ Served(login[later])) => Succeeded(later)

\* C28: a login changes of an identity row only username, first_name,
\* last_name and last_auth_at, and only of the row of its own id: every row
\* stays, with its telegram_user_id, user_id and created_at, and a row that
\* changes is the row of the id of the request whose upsert is the step.
C28_RowKept ==
  [][\A row \in identities :
       \E kept \in identities' :
         /\ kept.telegram_user_id = row.telegram_user_id
         /\ kept.user_id = row.user_id
         /\ kept.created_at = row.created_at
         /\ kept # row =>
              \E r \in Requests :
                /\ login[r].pc = "upsert"
                /\ login'[r].pc = "updateUserById"
                /\ login[r].telegramUser = row.telegram_user_id]_vars

\* A login for an id that had its row has succeeded, and the row holds a
\* later last_auth_at than created_at, and a username, next to the row of
\* another id
C28_Witness ==
  \E r \in Requests, row \in identities, other \in identities :
    /\ Succeeded(r)
    /\ login[r].before.user_id = row.user_id
    /\ login[r].telegramUser = row.telegram_user_id
    /\ row.created_at < row.last_auth_at
    /\ row.username = <<"u">>
    /\ row.first_name = NullText
    /\ other.telegram_user_id # row.telegram_user_id

\* The launch is by a link that was built for token
LaunchedByLinkOf(launch, token) ==
  \E bot \in BotUsernames : launch = OpenLink(buildCoachInviteLink(token, bot))

\* The start parameter lacks the prefix, or its token is outside the shape
NoInviteParam(startParam) ==
  \/ startParam = NullText
  \/ ~startsWith(Trim(startParam), inviteStartParamPrefix)
  \/ ~TokenShape(Trim(SubSeq(Trim(startParam), Len(inviteStartParamPrefix) + 1,
                             Len(Trim(startParam)))))

\* C29: a launch by the link that was built for the token of an invite
\* calls accept_workspace_invite with that token as it was issued, and the
\* token passes the shape check; a launch whose start parameter lacks the
\* prefix or holds a token outside the shape calls nothing.
C29_TokenRoundTrip ==
  [][\A uid \in Accounts, launch \in Launches :
       AcceptInviteFromStartParam(uid, launch) =>
         /\ \A i \in DOMAIN invites :
              LaunchedByLinkOf(launch, invites[i].invite_token) =>
                /\ TokenShape(invites[i].invite_token)
                /\ last'.op = "acceptInvite"
                /\ last'.args = <<invites[i].invite_token>>
         /\ NoInviteParam(getTelegramStartParam(launch)) =>
              /\ last'.op # "acceptInvite"
              /\ UNCHANGED <<members, invites, granted>>]_vars

\* The invite has been accepted through a launch, with the token of its
\* row: 64 characters
C29_Witness ==
  /\ last.op = "acceptInvite"
  /\ last.result = "ok"
  /\ \E i \in DOMAIN invites :
       /\ last.args = <<invites[i].invite_token>>
       /\ Len(invites[i].invite_token) = 64
       /\ invites[i].accepted_by = last.caller

----------------------------------------------------------------------------
\* The step is an acceptInvite call that fails
FailedAcceptCall ==
  /\ last = NoResponse
  /\ last'.op = "acceptInvite"
  /\ last'.result # "ok"

\* C31: an acceptInvite call that fails leaves every membership row and
\* every invite row as it was.
C31_FailureWritesNothing ==
  [][FailedAcceptCall => (members' = members /\ invites' = invites)]_vars

\* An account was refused an invite that another account had accepted
C31_Witness ==
  /\ AcceptAnswered
  /\ last.result = "Invite already accepted"
  /\ RowOf(invites, last).accepted_by # last.caller
  /\ RowOf(invites, last).accepted_by # NULL

----------------------------------------------------------------------------
\* The step is an acceptInvite call of account a on an unexpired invite to
\* workspace w that an account created
AcceptsInviteTo(a, w) ==
  /\ last'.op = "acceptInvite"
  /\ last'.caller = a
  /\ RowOf(invites, last').workspace_id = w
  /\ RowOf(invites, last').expires_at > now
  /\ RowOf(invites, last').created_by \in Accounts

\* The account has a row in the workspace, and not as its owner
HoldsLowerRoleOnly(ms, w, a) ==
  is_workspace_member(ms, w, a) /\ ~is_workspace_owner(ms, w, a)

\* C32: the membership row of account a in workspace w is created or gets
\* another role only by the creation of w by a, by a accepting an unexpired
\* invite to w, or by an inviteByEmail call of an owner of w; it is removed
\* only by an owner of w; and a step of an account that holds only the
\* role of coach or member in w leaves the rows of the other accounts in w
\* as they were.
C32_AuthorizedPaths ==
  [][\A w \in 1..MaxWorkspaces, a \in Accounts :
       LET before == MemberRows(members, w, a)
           after == MemberRows(members', w, a)
           caller == last'.caller
       IN /\ (after # {} /\ after # before) =>
               \/ /\ last'.op = "createWorkspaceWithOwner"
                  /\ caller = a
                  /\ last'.value = w
               \/ AcceptsInviteTo(a, w)
               \/ /\ last'.op = "inviteByEmail"
                  /\ is_workspace_owner(members, w, caller)
          /\ (before # {} /\ after = {}) => is_workspace_owner(members, w, caller)
          /\ (last = NoResponse /\ caller # a /\ HoldsLowerRoleOnly(members, w, caller)) =>
               after = before]_vars

----------------------------------------------------------------------------
\* What verifyInitData makes of the initData that the request of f carries
Verdict(f) ==
  verifyInitData(f.request.body.params, f.request.body.botToken,
                 maxAgeSeconds(f.request.body.env), Num(NowSeconds))

CarriesInitData(f) == f.request.body.json = "initData" /\ f.request.method = "POST"

\* The request of f carries an initData that fails verification
Refused(f) == CarriesInitData(f) /\ Verdict(f).error # NULL

\* The calls that the run of f has made
CallsOf(f) == {f.trail[i][1] : i \in DOMAIN f.trail}

\* C33: a login request whose initData fails verification has no side
\* effect: no step of it creates an account, inserts or updates an identity
\* row or sets a password, its only call is verifyInitData, and it is
\* answered with status 400.
C33_RefusedLoginWritesNothing ==
  [][\A r \in Requests :
       (login'[r] # login[r] /\ Refused(login'[r])) =>
          /\ users' = users
          /\ identities' = identities
          /\ CallsOf(login'[r]) = {"verifyInitData"}
          /\ login'[r].pc = "done"
          /\ login'[r].response.status = 400]_vars

\* After a login that succeeded, a login whose hash is not the one of
\* Telegram for these fields and whose user field names an id was refused
C33_Witness ==
  /\ login[1].pc = "done"
  /\ login[1].response.status = 200
  /\ Refused(login[2])
  /\ Verdict(login[2]).error = "bad signature"
  /\ parseTelegramUser(login[2].request.body.params).error = NULL
  /\ login[2].pc = "done"

----------------------------------------------------------------------------
\* The workspaces that ensureWorkspace created for the account of the
\* clients
AutoCreated == {i \in DOMAIN workspaces : workspaces[i].created_by = Owner}

\* C34: ensureWorkspace calls create_workspace_with_owner only when the
\* list of workspaces that it fetched is empty, and under every interleaving
\* of the runs of init, signInWithTelegram and refreshWorkspaces in the
\* clients of one account at most one workspace is created for the account.
C34_ProvisionedOnce ==
  /\ \A c \in Clients, s \in Slots :
       Run(c, s).pc = "create" => Run(c, s).workspaces = <<>>
  /\ Cardinality(AutoCreated) <= 1

----------------------------------------------------------------------------
\* C35: a run of init or signInWithTelegram whose acceptInviteFromStartParam
\* accepted an invite reads the list of workspaces after the membership was
\* written: it never calls create_workspace_with_owner, and when it sets
\* the store the workspace of the invite is in the list and is the active
\* workspace.
C35_InviteBeforeProvisioning ==
  [][\A c \in Clients, s \in Slots :
       LET run == Run(c, s)
           after == app'[c]
       IN run.acceptedInvite # NullId =>
            /\ run.pc # "create"
            /\ ~run.autoCreated
            /\ (run.pc = "set" /\ after.runs[s] = IdleRun) =>
                  /\ after.store.workspaceId = run.acceptedInvite
                  /\ Contains(after.store.workspaces, run.acceptedInvite)
                  /\ after.saved = run.acceptedInvite]_vars

\* The account had no workspace, signed in from the link of an invite in
\* client 1, and the workspace of the invite is active there
C35_Witness ==
  /\ AutoCreated = {}
  /\ invites[1].accepted_by = Owner
  /\ app[1].inviteToken = invites[1].invite_token
  /\ app[1].store.sessionUserId = Owner
  /\ app[1].store.workspaceId = invites[1].workspace_id
  /\ app[1].store.workspaces = <<invites[1].workspace_id>>

----------------------------------------------------------------------------
\* C36: in every state of the store of a client, also while store actions
\* overlap, sessionUserId = null implies that workspaceId is empty and that
\* the lists workspaces, workspaceMembers, workouts and templates are empty.
C36_SignedOutIsEmpty ==
  \A c \in Clients :
    LET store == app[c].store
    IN store.sessionUserId = NULL =>
         /\ store.workspaceId = NullId
         /\ store.workspaces = <<>>
         /\ store.workspaceMembers = {}
         /\ store.workouts = <<>>
         /\ store.templates = <<>>

\* C37: workspaceId of the store is empty or the id of an entry of its list
\* of workspaces, and workspaceSelectionRequired is true only when
\* workspaceId is empty and the list has more than one entry.
C37_ActiveIsListed ==
  \A c \in Clients :
    LET store == app[c].store
    IN /\ store.workspaceId # NullId => Contains(store.workspaces, store.workspaceId)
       /\ store.workspaceSelectionRequired =>
            store.workspaceId = NullId /\ Len(store.workspaces) > 1

====
